---------------------------- MODULE Spec2Model ----------------------------
(***************************************************************************)
(* A model of the strumboli performance core:                              *)
(*   - Strummer (utils/music/strummer): the strum / release state machine  *)
(*     with tap buffering and multi-string crossing;                       *)
(*   - Midi (utils/music/midi): note lifecycle with cancellable            *)
(*     auto-release timers and channel routing.                            *)
(*   - HIDReader (utils/tablet/hid-reader): decoding of input reports by   *)
(*     the configured byte mappings, and report delivery;                  *)
(*   - ChordProgressionState (utils/music/chord-progression-state) and the *)
(*     progression actions of Actions (utils/data-helpers);                *)
(*   - Note (utils/music/note): chord parsing, transposition and note      *)
(*     spread, and the effect curve of utils/data-helpers;                 *)
(*   - EventEmitter (utils/event-emitter): registration and emit;          *)
(*   - the direct app (components/direct-app): tablet data to strummer to  *)
(*     MIDI, and the input side of Midi (midiCallback);                    *)
(*   - loadChordProgressions: the load of the progressions file and its    *)
(*     callers;                                                            *)
(*   - TabletController (part_002): connect and disconnect, and the tablet *)
(*     buttons;                                                            *)
(*   - StrummerApp (part_004): the WebSocket connection state.             *)
(*                                                                         *)
(* Numbers.  Pressures and thresholds are multiples of 1/PScale, positions *)
(* and widths are multiples of 1/XScale; the arithmetic of the source is   *)
(* carried out exactly on these rationals.  Time is counted in ticks.      *)
(***************************************************************************)
EXTENDS Integers, Sequences, FiniteSets, TLC

(***************************************************************************)
(* Bounds of the model.                                                    *)
(***************************************************************************)
PScale == 10           \* pressure units per 1.0
XScale == 6            \* position units per 1.0
XMargin == 1           \* how far off the surface a position may lie
MaxStrings == 3        \* longest note list
MaxTimers == 2         \* timers the host hands out in one run
BendScale == 10       \* bend units per 1.0
MaxTime == 2           \* ticks the clock runs for
MaxReportLen == 3      \* bytes in the longest report
MaxReports == 2        \* input reports the device dispatches in one run
MaxStarts == 2         \* startReading() calls in one run
MaxArg == 5            \* largest index or increment given, either sign
MaxSpread == 3         \* largest lower / upper note spread configured
MaxOctave == 10        \* highest octave a chord is asked in
MaxNoteOctave == 4     \* highest octave of a note given to transposeNote
EScale == 4            \* control input units per 1.0
MaxListeners == 2      \* callbacks registered on the emitter in one run
MaxEmits == 2          \* emit calls made from outside a callback
MaxDepth == 2          \* emit calls in progress at once
MaxCalls == 3          \* calls of loadChordProgressions
MaxConnects == 2       \* handleDeviceConnect calls
MaxSockets == 3        \* WebSocket objects made
MaxButtonEvents == 3   \* 'tablet-button' events kept per button

(***************************************************************************)
(* Program constants.                                                      *)
(***************************************************************************)
bufferMaxSamples == 3  \* Strummer.bufferMaxSamples
MinVelocity == 20
MaxVelocity == 127
VelocitySpan == 107
NumChannels == 16      \* Array.from({ length: 16 })
MaxPitch == 127        \* the data byte of a MIDI pitch number
NoteOn == 144          \* 0x90
NoteOff == 128         \* 0x80
PitchBend == 224       \* 0xE0
ReleaseVelocity == 64  \* 0x40
BendCenter == 8192
BendMax == 16383
DefaultOctave == 4     \* parseNotation: note.octave = 4
ButtonInterfaceReportId == 6   \* reportId === 6
StylusModeStatusByte == 160    \* config.stylusModeStatusByte ?? 0xa0
DefaultButtonCount == 8        \* mapping.buttonCount ?? 8
PrimaryReportId == 2           \* config.reportId ?? 2
ByteMax == 255                 \* the largest byte of a Uint8Array
ActionOctave == 4              \* Actions: let octave = 4
NoteSpread == 0                \* strummingCfg.lowerNoteSpread ?? 0
Semitones == 12                \* parseChord: % 12
Null == 0 - 1          \* null: no channel / no configured strum channel
NoIndex == 0 - 1       \* the -1 of lastStrummedIndex / pendingTapIndex
NaN == 0 - 2           \* the IEEE not-a-number a velocity can become (0/0)
Undefined == 0 - 3     \* notes[i] for i outside the list

VARIABLES
    \* ---- Strummer fields
    notes,              \* _notes: the strings, left to right (note ids)
    width,              \* _width, in position units
    lastStrummedIndex,
    lastPressure,
    pressureThreshold,
    lastStrumVelocity,
    pressureBuffer,     \* the pressures of the buffered [pressure, timestamp]
    pendingTapIndex,
    \* ---- what the last Strummer call returned (NoEvent for a void method)
    result,
    \* ---- history of the strum engine (observers, never read by the code)
    epi,                \* "idle" | "tap" | "held" | "void"
    tapIdx,             \* string index of the tap's first qualifying sample
    lastEmittedVel,     \* velocity of the last strum emitted since the last
                        \* release or clearStrum, 0 when there was none
    ignored,            \* the last call was strum() on an empty note list
    justCleared         \* the last call was clearStrum()

VARIABLES
    \* ---- Midi fields
    midiOut,            \* an output port is held (this.midiOut !== null)
    midiStrumChannel,   \* 1..16 or Null
    activeNoteTimers,   \* noteKey -> timer handle
    noteStartTimes,     \* noteKey -> Date.now() of the note-on
    \* ---- the host: window.setTimeout / clearTimeout and the clock
    timers,             \* the pending timeouts
    nextTimerId,        \* the handle the next setTimeout returns
    now,
    \* ---- history of the scheduler (observers, never read by the code)
    hist,               \* noteKey -> the latest note-on for the key
    dead,               \* handles clearTimeout was called on
    quiet,              \* close() ran and no send was issued since
    silent,             \* a send, release or bend returned for want of an
                        \* output, and none has been acquired since
    lastBend            \* the messages the last sendPitchBend handed to the
                        \* output, in order; empty when there was none

midiVars == <<midiOut, midiStrumChannel, activeNoteTimers, noteStartTimes,
              timers, nextTimerId, now, hist, dead, quiet, silent, lastBend>>

strumVars == <<notes, width, lastStrummedIndex, lastPressure, pressureThreshold,
               lastStrumVelocity, pressureBuffer, pendingTapIndex,
               result, epi, tapIdx, lastEmittedVel, ignored,
               justCleared>>

VARIABLES
    \* ---- HIDReader fields and its device
    hidConfig,          \* config: the mapping table and the reportId
    isRunning,
    opened,             \* device.opened
    handlers,           \* inputreport listeners attached to the device
    opening,            \* startReading() calls waiting at their first await
    \* ---- history of the reader (observers, never read by the code)
    received,           \* the input reports dispatched, in arrival order:
                        \* reportId and isRunning at arrival
    callbacks,          \* arrival numbers of the reports handed to
                        \* dataCallback, in call order
    decoded,            \* processDeviceData has run
    lastReport,         \* the bytes it was last given
    lastFrame           \* the frame it returned for them

hidVars == <<hidConfig, isRunning, opened, handlers, opening, received,
             callbacks, decoded, lastReport, lastFrame>>

VARIABLES
    \* ---- the module's CHORD_PROGRESSIONS
    progressions,
    \* ---- ChordProgressionState fields
    progressionName,
    chords,
    currentIndex,
    \* ---- history (observer)
    progReturn          \* the last call made by the action layer: its name,
                        \* its argument and what it returned

progVars == <<progressions, progressionName, chords, currentIndex, progReturn>>

VARIABLES
    \* ---- EventEmitter: the Set of callbacks of the event type
    emitterCallbacks,   \* in insertion order
    \* ---- the host
    emitStack,          \* the emit calls in progress, innermost last: what
                        \* is left of each call's callbackArray
    invocations,        \* per function: whether once() made it, and the
                        \* times the body given by the caller has run
    nextListener,       \* the next function to be registered
    emitCount,          \* emit calls made from outside a callback
    reentered           \* an emit has been issued from inside a callback

emitVars == <<emitterCallbacks, emitStack, invocations, nextListener,
              emitCount, reentered>>

VARIABLES
    \* ---- chord-progression-state: the module's variables
    progressionsLoaded, \* set once the file has been read and flattened
    loadPromise,        \* "null", or the state of the promise of the load
    \* ---- the host
    loadBody,           \* where the body of the load stands: "idle", at
                        \* "fetch", at "json", or "done"
    fetchCount,         \* fetch calls issued
    loadCallers         \* per call of loadChordProgressions, in order: where
                        \* the body stood, and the promise handed back

loadVars == <<progressionsLoaded, loadPromise, loadBody, fetchCount, loadCallers>>

VARIABLES
    \* ---- TabletController: its fields
    connected,          \* what isConnected() returns
    deviceInfo,         \* null, or the info of the device of the last connect
    hidReader,          \* null, or the reader attached: its number
    hidDevice,          \* null, or the primary device
    allHidDevices,      \* the interfaces of the device
    \* ---- the host
    readers,            \* the HIDReader objects made, in order: device, isRunning
    setups,             \* the setupDevice calls waiting at an await: at
                        \* "close" or at "start", and whether the disconnect
                        \* callback has run since the call began
    connectCount,       \* handleDeviceConnect calls so far
    lastConnection,     \* the payload of the last 'connection' event
    connectedBy         \* the setupDevice call that last set connected

ctlVars == <<connected, deviceInfo, hidReader, hidDevice, allHidDevices,
             readers, setups, connectCount, lastConnection, connectedBy>>

VARIABLES
    \* ---- StrummerApp: its WebSocket fields
    webSocket,          \* undefined, or the socket held: its number
    connectionStatus,
    connectionError,
    panelMinimized,     \* panelMinimized['websocket-connection']
    \* ---- the host
    sockets             \* the readyState of every WebSocket made, in order

wsVars == <<webSocket, connectionStatus, connectionError, panelMinimized,
            sockets>>

VARIABLES
    \* ---- TabletController: the tablet buttons
    tabletButtonState,  \* per button 1..8: tracked as pressed
    \* ---- the host
    buttonEvents        \* per button: `pressed` of the 'tablet-button'
                        \* events emitted for it, in order

btnVars == <<tabletButtonState, buttonEvents>>

\* the application around the strummer
appVars == <<loadVars, ctlVars, wsVars, btnVars>>

vars == <<strumVars, midiVars, hidVars, progVars, emitVars, appVars>>

(***************************************************************************)
(* Inputs.                                                                 *)
(***************************************************************************)
Positions == (0 - XMargin)..(XScale + XMargin)

(***************************************************************************)
(* StrumResult.  null is the record of type "none".  Each entry of notes   *)
(* carries the string index it was read from next to the note itself.      *)
(***************************************************************************)
NoEvent == [type |-> "none", notes |-> <<>>, velocity |-> 0]
StrumEvent(entries) == [type |-> "strum", notes |-> entries, velocity |-> 0]

Min(a, b) == IF a < b THEN a ELSE b
Max(a, b) == IF a > b THEN a ELSE b

\* this._notes[i]
NoteAt(ns, i) == IF i \in 0..(Len(ns) - 1) THEN ns[i + 1] ELSE Undefined

\* Math.min(Math.floor(x / (width / N)), N - 1)
StringIndex(x, w, n) == Min((x * n) \div w, n - 1)

\* lines 136-141: velocity of a buffered tap
TapVelocity(p, th) ==
    LET num == p - th
        den == PScale - th
    IN  IF den = 0
        THEN (IF num = 0 THEN NaN
              ELSE IF num > 0 THEN MaxVelocity ELSE MinVelocity)
        ELSE LET scaled == IF num <= 0 THEN 0
                           ELSE IF num >= den THEN VelocitySpan
                           ELSE (VelocitySpan * num) \div den
             IN  Max(MinVelocity, Min(MaxVelocity, MinVelocity + scaled))

\* a strum() without the empty-list guard
NotesEmptyNever(ns) == FALSE

\* line 64: no strings loaded
NotesEmpty(ns) == Len(ns) = 0

(***************************************************************************)
(* Strummer.strum(x, pressure), lines 63-195, as a function from the       *)
(* fields to the new fields and the returned event.                        *)
(***************************************************************************)
StrumStep(x, p) ==
    LET n == Len(notes)
        index == StringIndex(x, width, n)
        th == pressureThreshold
        hasSufficientPressure == p >= th
        pressureDown == lastPressure < th /\ p >= th
        pressureUp == lastPressure >= th /\ p < th
        \* line 163: velocity of a crossing
        CrossVelocity == Max(MinVelocity, (MaxVelocity * p) \div PScale)
        \* lines 167-180: the indices crossed going from string `from` to `to`
        CrossIndices(from, to) ==
            IF from < to
            THEN [k \in 1..(to - from) |-> from + k]
            ELSE [k \in 1..(from - to) |-> from - k]
        same == [lsi |-> lastStrummedIndex, lp |-> lastPressure,
                 vel |-> lastStrumVelocity, buf |-> pressureBuffer,
                 pti |-> pendingTapIndex, ret |-> NoEvent, branch |-> "empty"]
    IN
    IF NotesEmpty(notes) THEN same
    ELSE IF pressureUp THEN
        [same EXCEPT !.lsi = NoIndex, !.lp = p, !.buf = <<>>, !.pti = NoIndex,
                     !.vel = 0,
                     \* line 97: `lastStrumVelocity > 0`, false for NaN
                     !.ret = IF lastStrumVelocity # NaN /\ lastStrumVelocity > 0
                             THEN [type |-> "release", notes |-> <<>>,
                                   velocity |-> lastStrumVelocity]
                             ELSE NoEvent,
                     !.branch = "up"]
    ELSE IF pressureDown /\ (lastStrummedIndex = NoIndex \/ lastStrummedIndex # index) THEN
        [same EXCEPT !.buf = <<lastPressure, p>>, !.pti = index, !.lp = p,
                     !.branch = "down"]
    ELSE IF hasSufficientPressure /\ lastStrummedIndex = NoIndex
                                  /\ pendingTapIndex = NoIndex THEN
        [same EXCEPT !.buf = <<p>>, !.pti = index, !.lp = p, !.branch = "first"]
    ELSE IF pendingTapIndex # NoIndex
            /\ Len(pressureBuffer) < bufferMaxSamples THEN      \* line 125
        LET buf2 == Append(pressureBuffer, p) IN
        IF Len(buf2) >= bufferMaxSamples                       \* line 131
        THEN LET v == TapVelocity(p, th) IN
             [same EXCEPT !.lp = p, !.vel = v, !.lsi = pendingTapIndex,
                          !.pti = NoIndex, !.buf = <<>>,
                          !.ret = StrumEvent(<<[idx |-> pendingTapIndex,
                                                note |-> NoteAt(notes, pendingTapIndex),
                                                velocity |-> v]>>),
                          !.branch = "tap"]
        ELSE [same EXCEPT !.lp = p, !.buf = buf2, !.branch = "buffering"]
    ELSE IF hasSufficientPressure /\ lastStrummedIndex # NoIndex
                                  /\ lastStrummedIndex # index THEN
        LET v == CrossVelocity
            indices == CrossIndices(lastStrummedIndex, index)
            notesToPlay == [k \in 1..Len(indices) |->
                              [idx |-> indices[k], note |-> NoteAt(notes, indices[k]),
                               velocity |-> v]]
        IN  [same EXCEPT !.lp = p, !.vel = v, !.lsi = index,
                         !.ret = IF Len(notesToPlay) > 0
                                 THEN StrumEvent(notesToPlay) ELSE NoEvent,
                         !.branch = "cross"]
    ELSE [same EXCEPT !.lp = p, !.branch = "hold"]

StrummerInit ==
    /\ notes = <<>>
    /\ width = XScale
    /\ lastStrummedIndex = NoIndex
    /\ lastPressure = 0
    /\ pressureThreshold = 1
    /\ lastStrumVelocity = 0
    /\ pressureBuffer = <<>>
    /\ pendingTapIndex = NoIndex
    /\ result = NoEvent
    /\ epi = "idle"
    /\ tapIdx = NoIndex
    /\ lastEmittedVel = 0
    /\ ignored = FALSE
    /\ justCleared = FALSE

\* strum(x, pressure) has run on the strummer
StrumSample(x, p) ==
    \E r \in {StrumStep(x, p)} :
        LET \* the phase of the press, advanced by this call
            NextEpi ==
                CASE r.branch = "empty" -> epi
                  [] r.branch = "up" -> "idle"
                  [] epi = "idle" /\ p >= pressureThreshold -> "tap"
                  [] epi = "tap" /\ r.ret.type = "strum" -> "held"
                  [] OTHER -> epi
        IN
        /\ lastStrummedIndex' = r.lsi
        /\ lastPressure' = r.lp
        /\ lastStrumVelocity' = r.vel
        /\ pressureBuffer' = r.buf
        /\ pendingTapIndex' = r.pti
        /\ result' = r.ret
        /\ ignored' = (r.branch = "empty")
        /\ justCleared' = FALSE
        /\ epi' = NextEpi
        /\ tapIdx' = IF epi' # "tap" THEN NoIndex
                     ELSE IF epi = "idle"
                     THEN StringIndex(x, width, Len(notes)) ELSE tapIdx
        /\ lastEmittedVel' = IF r.branch = "up" THEN 0
                             ELSE IF r.ret.type = "strum"
                             THEN r.ret.notes[1].velocity ELSE lastEmittedVel
        /\ UNCHANGED <<notes, width, pressureThreshold>>

\* strum(x, pressure)
Strum ==
    \E x \in Positions, p \in {0, 5, PScale} :
        /\ StrumSample(x, p)
        /\ UNCHANGED <<midiVars, hidVars, progVars, emitVars, appVars>>

\* the fields as they are, and the events emitted (none)
Fields ==
    [lsi |-> lastStrummedIndex, lp |-> lastPressure, vel |-> lastStrumVelocity,
     buf |-> pressureBuffer, pti |-> pendingTapIndex, notes |-> notes,
     width |-> width, th |-> pressureThreshold, emits |-> <<>>]

clearStrumKeepsVelocity ==
    [Fields EXCEPT !.lsi = NoIndex, !.lp = 0, !.buf = <<>>, !.pti = NoIndex]

\* clearStrum(), lines 200-207
clearStrum ==
    [Fields EXCEPT !.lsi = NoIndex, !.lp = 0, !.vel = 0, !.buf = <<>>,
                   !.pti = NoIndex]

configureResets(th) == [clearStrum EXCEPT !.th = th]

\* configure(_, pressureThreshold), lines 212-215
configure(th) == [Fields EXCEPT !.th = th]

\* the void method with effect e has run
ApplyFields(e) ==
    /\ lastStrummedIndex' = e.lsi
    /\ lastPressure' = e.lp
    /\ lastStrumVelocity' = e.vel
    /\ pressureBuffer' = e.buf
    /\ pendingTapIndex' = e.pti
    /\ notes' = e.notes
    /\ width' = e.width
    /\ pressureThreshold' = e.th
    /\ result' = NoEvent
    /\ ignored' = FALSE

ClearStrum ==
    \E e \in {clearStrum} :
        /\ ApplyFields(e)
        /\ justCleared' = TRUE
        /\ epi' = "idle"
        /\ tapIdx' = NoIndex
        /\ lastEmittedVel' = 0
        /\ UNCHANGED <<midiVars, hidVars, progVars, emitVars, appVars>>

Configure ==
    \E th \in {0, 1, PScale} : \E e \in {configure(th)} :
        /\ ApplyFields(e)
        /\ justCleared' = FALSE
        /\ epi' = IF th # pressureThreshold /\ epi # "idle" THEN "void" ELSE epi
        /\ tapIdx' = IF epi' = "tap" THEN tapIdx ELSE NoIndex
        /\ UNCHANGED lastEmittedVel
        /\ UNCHANGED <<midiVars, hidVars, progVars, emitVars, appVars>>

\* set notes(notes), lines 37-42 (updateBounds with the width it already has)
SetNotes ==
    \* the note lists the action layer loads: <<>>, <<1>>, <<1,2>>, ...
    \E ns \in {[i \in 1..n |-> i] : n \in 0..MaxStrings} :
        /\ notes' = ns
        /\ ignored' = FALSE
        /\ justCleared' = FALSE
        /\ result' = NoEvent
        /\ UNCHANGED <<width, lastStrummedIndex, lastPressure, pressureThreshold,
                       lastStrumVelocity, pressureBuffer, pendingTapIndex,
                       epi, tapIdx, lastEmittedVel>>
        /\ UNCHANGED <<midiVars, hidVars, progVars, emitVars, appVars>>

\* updateBounds(width, height), lines 220-223
UpdateBounds ==
    \E w \in {XScale, 2 * XScale} :
        /\ width' = w
        /\ ignored' = FALSE
        /\ justCleared' = FALSE
        /\ result' = NoEvent
        /\ UNCHANGED <<notes, lastStrummedIndex, lastPressure, pressureThreshold,
                       lastStrumVelocity, pressureBuffer, pendingTapIndex,
                       epi, tapIdx, lastEmittedVel>>
        /\ UNCHANGED <<midiVars, hidVars, progVars, emitVars, appVars>>


(***************************************************************************)
(* Note: notation strings.  A string is the sequence of its characters.    *)
(***************************************************************************)
sharpNotations ==
    << <<"C">>, <<"C", "#">>, <<"D">>, <<"D", "#">>, <<"E">>, <<"F">>,
       <<"F", "#">>, <<"G">>, <<"G", "#">>, <<"A">>, <<"A", "#">>, <<"B">> >>
flatNotations ==
    << <<"C">>, <<"D", "b">>, <<"D">>, <<"E", "b">>, <<"E">>, <<"F">>,
       <<"G", "b">>, <<"G">>, <<"A", "b">>, <<"A">>, <<"B", "b">>, <<"B">> >>

DigitChars == <<"0", "1", "2", "3", "4", "5", "6", "7", "8", "9">>

\* Array.prototype.indexOf: the first position (from 0), -1 when absent
IndexOf(list, e) ==
    IF \E i \in 1..Len(list) : list[i] = e
    THEN (CHOOSE i \in 1..Len(list) :
            list[i] = e /\ \A j \in 1..(i - 1) : list[j] # e) - 1
    ELSE 0 - 1

\* String(n) for an integer n
RECURSIVE NatString(_)
NatString(n) ==
    IF n < 10 THEN <<DigitChars[n + 1]>>
    ELSE NatString(n \div 10) \o <<DigitChars[(n % 10) + 1]>>
IntString(n) == IF n < 0 THEN <<"-">> \o NatString(0 - n) ELSE NatString(n)

\* String(undefined), what a missing notation reads as
UndefinedString == <<"u", "n", "d", "e", "f", "i", "n", "e", "d">>

\* list[i] of an array of notations: `undefined` outside the array
ArrayAt(list, i) ==
    IF i >= 0 /\ i < Len(list) THEN list[i + 1] ELSE UndefinedString

\* Note.parseNotation: the last character is the octave when it is a digit
parseNotation(str) ==
    LET last == str[Len(str)]
        IsDigit == \E d \in 1..10 : DigitChars[d] = last
        DigitValue == (CHOOSE d \in 1..10 : DigitChars[d] = last) - 1
    IN
    IF IsDigit
    THEN [octave |-> DigitValue,
          notation |-> IF Len(str) = 3 THEN <<str[1], str[2]>> ELSE <<str[1]>>]
    ELSE [octave |-> DefaultOctave, notation |-> str]

\* Note.notationToMIDI
notationToMIDI(str) ==
    LET ntObj == parseNotation(str)
        sharp == IndexOf(sharpNotations, ntObj.notation)
        ntindx == IF sharp = 0 - 1 THEN IndexOf(flatNotations, ntObj.notation)
                  ELSE sharp
    IN  ntObj.octave * Len(sharpNotations) + ntindx

\* Note.notationToMIDI(note.notation + String(note.octave))
NoteToMIDI(note) == notationToMIDI(note.notation \o IntString(note.octave))

(***************************************************************************)
(* HIDReader (utils/tablet/hid-reader) and the byte parsers of             *)
(* utils/data-helpers.  A report is the sequence of its bytes; the byte    *)
(* the source reads at index i is data[i + 1].  A frame is a function from *)
(* keys to values.  A number is kept as the exact fraction n / d the       *)
(* source computes.                                                        *)
(***************************************************************************)
Num(n, d) == [kind |-> "number", n |-> n, d |-> d, s |-> ""]
Zero == Num(0, 1)
\* the NaN that arithmetic on `undefined` gives
NotANumber == Num(0, 0)
Bool(b) == [kind |-> "boolean", n |-> IF b THEN 1 ELSE 0, d |-> 1, s |-> ""]
Str(s) == [kind |-> "string", n |-> 0, d |-> 1, s |-> s]

EmptyFrame == <<>>
\* Object.assign(frame, obj)
Assign(frame, obj) ==
    [k \in DOMAIN frame \cup DOMAIN obj |->
        IF k \in DOMAIN obj THEN obj[k] ELSE frame[k]]
\* result[key] = value
Put(frame, key, value) == Assign(frame, [k \in {key} |-> value])

\* `button${i}`
ButtonKeys == <<"button1", "button2", "button3", "button4",
                "button5", "button6", "button7", "button8">>
ButtonKey(i) == ButtonKeys[i]
ButtonNumber(key) == CHOOSE i \in 1..Len(ButtonKeys) : ButtonKeys[i] = key
PositionKeys == {"x", "y", "pressure", "tiltX", "tiltY"}
\* deviceState = null
NoState == ""

\* data[i]: `undefined` beyond the end of the array
ByteAt(data, i) == IF i < Len(data) THEN data[i + 1] ELSE Undefined

\* parseRangeData, data-helpers.ts lines 8-14
parseRangeData(data, byteIndex, minVal, maxVal) ==
    LET value == ByteAt(data, byteIndex)
    IN  IF maxVal = minVal THEN Zero
        ELSE IF value = Undefined THEN NotANumber
        ELSE Num(value - minVal, maxVal - minVal)

\* the loop of parseMultiByteRangeData, lines 32-38, from position i on
RECURSIVE CombineBytes(_, _, _)
CombineBytes(data, byteIndices, i) ==
    IF i > Len(byteIndices) THEN 0
    ELSE (IF byteIndices[i] < Len(data)
          THEN data[byteIndices[i] + 1] * (2 ^ (8 * (i - 1))) ELSE 0)
         + CombineBytes(data, byteIndices, i + 1)

\* parseMultiByteRangeData, lines 20-46
parseMultiByteRangeData(data, byteIndices, minVal, maxVal) ==
    IF Len(byteIndices) = 0 THEN Zero
    ELSE LET value == CombineBytes(data, byteIndices, 1)
         IN  IF maxVal = minVal THEN Zero
             ELSE Num(value - minVal, maxVal - minVal)

\* parseBipolarRangeData, lines 53-73
parseBipolarRangeData(data, byteIndex, posMin, posMax, negMin, negMax) ==
    LET value == ByteAt(data, byteIndex)
    IN  IF value # Undefined /\ value < negMax
        THEN IF posMax = posMin THEN Zero ELSE Num(value, posMax - posMin)
        ELSE IF negMin = negMax THEN Zero
             ELSE IF value = Undefined THEN NotANumber
             ELSE Num(0 - (negMin - value), negMin - negMax)

\* parseCode, lines 78-96: the entry found, and whether it is an object
parseCode(data, byteIndex, mapping) ==
    LET code == ByteAt(data, byteIndex)
        values == mapping.values
    IN  IF ~mapping.valuesIsArray
        THEN [object |-> TRUE,
              entry |-> IF code \in DOMAIN values THEN values[code]
                        ELSE EmptyFrame,
              value |-> Zero]
        ELSE [object |-> FALSE, entry |-> EmptyFrame,
              value |-> IF code # Undefined /\ code < Len(values)
                        THEN values[code + 1] ELSE Zero]

\* parseBitFlags, lines 102-117
parseBitFlags(data, byteIndex, buttonCount) ==
    IF byteIndex >= Len(data) THEN EmptyFrame
    ELSE LET flags == data[byteIndex + 1]
             \* flags & (1 << i)
             Bit(i) == (flags \div (2 ^ i)) % 2 = 1
         IN  [k \in {ButtonKey(i + 1) : i \in 0..(buttonCount - 1)} |->
                 Bool(Bit(ButtonNumber(k) - 1))]

(***************************************************************************)
(* Mapping tables.  A table is the sequence of the entries of              *)
(* config.mappings in Object.entries order.  A field the table leaves out  *)
(* has the default the source gives it with `??`.                          *)
(***************************************************************************)
Mapping(key, type, byteIndex) ==
    [key |-> key, type |-> type, byteIndex |-> byteIndex,
     values |-> <<>>, valuesIsArray |-> TRUE,
     min |-> 0, max |-> 0,
     positiveMin |-> 0, positiveMax |-> 0, negativeMin |-> 0, negativeMax |-> 0,
     buttonCount |-> DefaultButtonCount]

\* the status codes of a tablet profile
StatusCodes == [hover |-> 160, buttons |-> 240]

StatusMapping ==
    [Mapping("status", "code", 0) EXCEPT
        !.values =
            (StatusCodes.hover :> (("state" :> Str("hover"))
                                   @@ ("primaryButtonPressed" :> Bool(TRUE))))
            @@ (StatusCodes.buttons :> ("state" :> Str("buttons"))),
        !.valuesIsArray = FALSE]

\* stylus fields and bit-flag buttons behind one status byte
TabletBitFlags ==
    << StatusMapping,
       [Mapping("x", "multi-byte-range", <<1, 2>>) EXCEPT !.max = 65535],
       [Mapping("y", "range", 1) EXCEPT !.max = ByteMax],
       [Mapping("tiltX", "bipolar-range", 2) EXCEPT
           !.positiveMax = 60, !.negativeMin = 256, !.negativeMax = 196],
       [Mapping("tabletButtons", "bit-flags", 1) EXCEPT !.buttonCount = 3] >>

\* buttons reported as codes on the button-only interface
TabletCodeButtons ==
    << StatusMapping,
       [Mapping("x", "multi-byte-range", <<1, 2>>) EXCEPT !.max = 65535],
       [Mapping("pressure", "range", 2) EXCEPT !.max = ByteMax],
       [Mapping("tabletButtons", "code", 1) EXCEPT
           !.values = (ButtonInterfaceReportId :> ("button" :> Num(1, 1)))
                      @@ (StatusCodes.hover :> ("button" :> Num(2, 1))),
           !.valuesIsArray = FALSE,
           !.buttonCount = 2] >>

\* a status looked up in a legacy array, and a field with min = max
TabletLegacy ==
    << [Mapping("status", "code", 0) EXCEPT
           !.values = <<Str("none"), Str("hover")>>],
       Mapping("wheel", "range", 1),
       [Mapping("y", "range", 2) EXCEPT !.max = ByteMax] >>

\* the reports of n bytes
RECURSIVE ReportsOfLength(_)
ReportsOfLength(n) ==
    IF n = 0 THEN {<<>>}
    ELSE {Append(r, b) : r \in ReportsOfLength(n - 1),
                         b \in {0, ButtonInterfaceReportId,
                                StatusCodes.hover, StatusCodes.buttons}}
\* the reports the device sends while the reader runs
HidReports ==
    {r \in ReportsOfLength(MaxReportLen) :
        /\ r[1] \in {StatusCodes.hover, StatusCodes.buttons}
        /\ \A i \in 2..Len(r) : r[i] = ButtonInterfaceReportId}

(***************************************************************************)
(* HIDReader.processDeviceData, hid-reader.ts lines 43-158.                *)
(***************************************************************************)
\* a resolution that merges nothing and learns no state
ResolveStatusNone(mappings, data) ==
    [result |-> EmptyFrame, deviceState |-> NoState]

\* lines 52-68: the frame and deviceState after the first loop
ResolveStatus(mappings, data) ==
    LET found == {j \in 1..Len(mappings) :
                    /\ mappings[j].type = "code"
                    /\ mappings[j].byteIndex < Len(data)}
        \* the mapping the loop stops at, 0 when it stops at none
        i == IF found = {} THEN 0
             ELSE CHOOSE j \in found : \A k \in found : j <= k
    IN  IF i = 0 THEN [result |-> EmptyFrame, deviceState |-> NoState]
        ELSE LET codeResult == parseCode(data, mappings[i].byteIndex, mappings[i])
             IN  IF codeResult.object
                 THEN [result |-> Assign(EmptyFrame, codeResult.entry),
                       deviceState |->
                           IF "state" \in DOMAIN codeResult.entry
                           THEN codeResult.entry["state"].s ELSE NoState]
                 ELSE [result |-> Put(EmptyFrame, mappings[i].key, codeResult.value),
                       deviceState |-> NoState]

\* a check that lets every index through
OutOfRangeNever(mapping, data) == FALSE

\* line 114
OutOfRange(mapping, data) ==
    /\ mapping.type # "multi-byte-range"
    /\ mapping.byteIndex >= Len(data)

\* one pass of the second loop, lines 71-155
ProcessMapping(mapping, data, frame, deviceState, isButtonInterface) ==
    IF mapping.type = "code" /\ mapping.key # "tabletButtons" THEN frame
    ELSE IF mapping.key = "tabletButtons" /\ mapping.type = "code"
    THEN \* lines 81-100
         IF /\ isButtonInterface
            /\ mapping.byteIndex < Len(data)
            /\ ~mapping.valuesIsArray
            /\ data[mapping.byteIndex + 1] \in DOMAIN mapping.values
            /\ "button" \in DOMAIN mapping.values[data[mapping.byteIndex + 1]]
            /\ mapping.values[data[mapping.byteIndex + 1]]["button"].n # 0
         THEN LET buttonNum == mapping.values[data[mapping.byteIndex + 1]]["button"].n
              IN  Assign(frame,
                         [k \in {ButtonKey(i) : i \in 1..mapping.buttonCount} |->
                             Bool(ButtonNumber(k) = buttonNum)])
         ELSE frame
    ELSE IF /\ mapping.type = "bit-flags"
            /\ deviceState # "buttons"
            /\ ~isButtonInterface
    THEN frame
    ELSE IF /\ isButtonInterface \/ deviceState = "buttons"
            /\ mapping.key \in PositionKeys
    THEN frame
    ELSE IF OutOfRange(mapping, data)
    THEN frame
    ELSE IF mapping.type = "range"
    THEN Put(frame, mapping.key,
             parseRangeData(data, mapping.byteIndex, mapping.min, mapping.max))
    ELSE IF mapping.type = "multi-byte-range"
    THEN IF \A i \in 1..Len(mapping.byteIndex) : mapping.byteIndex[i] < Len(data)
         THEN Put(frame, mapping.key,
                  parseMultiByteRangeData(data, mapping.byteIndex,
                                          mapping.min, mapping.max))
         ELSE frame
    ELSE IF mapping.type = "bipolar-range"
    THEN Put(frame, mapping.key,
             parseBipolarRangeData(data, mapping.byteIndex,
                                   mapping.positiveMin, mapping.positiveMax,
                                   mapping.negativeMin, mapping.negativeMax))
    ELSE IF mapping.type = "bit-flags"
    THEN Assign(frame, parseBitFlags(data, mapping.byteIndex, mapping.buttonCount))
    ELSE frame

RECURSIVE ProcessMappings(_, _, _, _, _, _)
ProcessMappings(mappings, i, data, frame, deviceState, isButtonInterface) ==
    IF i > Len(mappings) THEN frame
    ELSE ProcessMappings(mappings, i + 1, data,
                         ProcessMapping(mappings[i], data, frame, deviceState,
                                        isButtonInterface),
                         deviceState, isButtonInterface)

processDeviceData(data) ==
    LET \* lines 49-50
        reportId == IF Len(data) > 0 THEN data[1] ELSE 0
        isButtonInterface == reportId = ButtonInterfaceReportId
        status == ResolveStatus(hidConfig.mappings, data)
    IN  ProcessMappings(hidConfig.mappings, 1, data, status.result,
                        status.deviceState, isButtonInterface)

(***************************************************************************)
(* The reader and its device.                                              *)
(***************************************************************************)
\* constructor, lines 27-38
HidInit(tables, reportIds) ==
    /\ hidConfig \in {[mappings |-> t, reportId |-> r] :
                        t \in tables, r \in reportIds}
    /\ isRunning = FALSE
    /\ handlers = 0
    /\ opening = 0
    /\ opened = FALSE
    /\ received = <<>>
    /\ callbacks = <<>>
    /\ decoded = FALSE
    /\ lastReport = <<>>
    /\ lastFrame = EmptyFrame

\* the reader decodes data
Decode(data) ==
    /\ decoded' = TRUE
    /\ lastReport' = data
    /\ lastFrame' = processDeviceData(data)

\* processDeviceData(data), called on the reader
ProcessDeviceData ==
    \E n \in 0..MaxReportLen : \E data \in ReportsOfLength(n) :
        /\ Decode(data)
        /\ UNCHANGED <<hidConfig, isRunning, handlers, opening, opened,
                       received, callbacks>>
        /\ UNCHANGED <<strumVars, midiVars, progVars, emitVars, appVars>>

\* startReading() up to its first await, lines 163-196
StartReading ==
    /\ handlers < MaxStarts
    /\ isRunning' = TRUE
    /\ handlers' = handlers + 1
    /\ opening' = opening + 1
    /\ UNCHANGED <<hidConfig, opened, received, callbacks, decoded,
                   lastReport, lastFrame>>
    /\ UNCHANGED <<strumVars, midiVars, progVars, emitVars, appVars>>

\* startReading() from its first await on, lines 198-202
OpenDevice ==
    /\ opening > 0
    /\ opening' = opening - 1
    /\ opened' = TRUE
    /\ UNCHANGED <<hidConfig, isRunning, handlers, received, callbacks,
                   decoded, lastReport, lastFrame>>
    /\ UNCHANGED <<strumVars, midiVars, progVars, emitVars, appVars>>

\* stop(), lines 207-210
Stop ==
    /\ isRunning' = FALSE
    /\ UNCHANGED <<hidConfig, handlers, opening, opened, received, callbacks,
                   decoded, lastReport, lastFrame>>
    /\ UNCHANGED <<strumVars, midiVars, progVars, emitVars, appVars>>

\* close(), lines 215-225
CloseDevice ==
    /\ opened' = FALSE
    /\ UNCHANGED <<hidConfig, isRunning, handlers, opening, received,
                   callbacks, decoded, lastReport, lastFrame>>
    /\ UNCHANGED <<strumVars, midiVars, progVars, emitVars, appVars>>

\* the open device dispatches an input report to every listener attached;
\* inputReportHandler, lines 172-191
InputReport ==
    \E reportId \in {PrimaryReportId, ButtonInterfaceReportId},
       data \in HidReports :
        /\ opened
        /\ Len(received) < MaxReports
        /\ received' = Append(received, [reportId |-> reportId,
                                         running |-> isRunning])
        /\ IF /\ isRunning
              /\ ~(hidConfig.reportId # Undefined
                    /\ reportId # hidConfig.reportId)
              /\ handlers > 0
           THEN /\ Decode(data)
                /\ callbacks' = callbacks \o
                                [i \in 1..handlers |-> Len(received) + 1]
           ELSE UNCHANGED <<callbacks, decoded, lastReport, lastFrame>>
        /\ UNCHANGED <<hidConfig, isRunning, handlers, opening, opened>>
        /\ UNCHANGED <<strumVars, midiVars, progVars, emitVars, appVars>>

HidNext ==
    \/ StartReading
    \/ OpenDevice
    \/ Stop
    \/ CloseDevice
    \/ InputReport

(***************************************************************************)
(* ChordProgressionState (utils/music/chord-progression-state) and the     *)
(* two progression actions of Actions (utils/data-helpers).                *)
(***************************************************************************)
\* getCurrentChord() = null, chords[i] = undefined
NoChord == <<>>

\* a value found under a name: an array of chords, or an object that is no
\* array, of which the code reads .length and [i]
List(items) == [list |-> TRUE, length |-> Len(items), items |-> items]
NotAList(length) == [list |-> FALSE, length |-> length, items |-> <<>>]

\* CHORD_PROGRESSIONS: as the fallback of lines 48-50, and as flattened from
\* a chord_progressions.json (lines 38-41); as declared it is {}, here <<>>
DefaultProgressions ==
    "c-major-pop" :> List(<< <<"C">>, <<"G">>, <<"A", "m">>, <<"F">> >>)
LoadedProgressions ==
    DefaultProgressions
    @@ ("two-chord" :> List(<< <<"D", "m", "7">>, <<"G", "7">> >>))
    @@ ("empty" :> List(<<>>))

\* what every object literal inherits from Object.prototype: the function
\* Object (length 1) and the function toString (length 0)
ObjectPrototype ==
    ("constructor" :> NotAList(1)) @@ ("toString" :> NotAList(0))

\* the remainder of JavaScript: it has the sign of the dividend
JsRem(a, b) == IF a >= 0 THEN a % b ELSE 0 - ((0 - a) % b)

\* a wrap with one remainder only
WrapOnce(index, length) ==
    IF index >= 0 THEN index % length ELSE 0 - ((0 - index) % length)

\* ((index % length) + length) % length, lines 90 and 103
Wrap(index, length) == JsRem(JsRem(index, length) + length, length)

\* the fields of the progression
ProgState ==
    [progressionName |-> progressionName, chords |-> chords,
     currentIndex |-> currentIndex]

\* what a method leaves and returns
Returns(st, call, arg, ret) ==
    [st |-> st, ret |-> [call |-> call, arg |-> arg, ret |-> ret]]

\* loadProgression(name), lines 65-77
loadProgression(st, name) ==
    LET \* name in CHORD_PROGRESSIONS: own and inherited properties
        present == name \in DOMAIN progressions \/ name \in DOMAIN ObjectPrototype
        \* CHORD_PROGRESSIONS[name]
        found == IF name \in DOMAIN progressions THEN progressions[name]
                 ELSE ObjectPrototype[name]
    IN  IF ~present
        THEN Returns(st, "loadProgression", name, FALSE)
        ELSE Returns([progressionName |-> name, chords |-> found,
                      currentIndex |-> 0],
                     "loadProgression", name, TRUE)

\* setIndex(index), lines 82-91
setIndex(st, index) ==
    IF st.chords.length = 0 THEN Returns(st, "setIndex", index, 0)
    ELSE LET i == Wrap(index, st.chords.length)
         IN  Returns([st EXCEPT !.currentIndex = i], "setIndex", index, i)

\* incrementIndex(amount), lines 96-105
incrementIndex(st, amount) ==
    IF st.chords.length = 0 THEN Returns(st, "incrementIndex", amount, 0)
    ELSE LET i == Wrap(st.currentIndex + amount, st.chords.length)
         IN  Returns([st EXCEPT !.currentIndex = i], "incrementIndex", amount, i)

\* getCurrentChord(), lines 110-116
getCurrentChord(st) ==
    IF st.chords.length = 0 THEN NoChord
    ELSE IF st.chords.list /\ st.currentIndex < st.chords.length
    THEN st.chords.items[st.currentIndex + 1]
    ELSE NoChord

\* reset(), lines 152-154
reset(st) == Returns([st EXCEPT !.currentIndex = 0], "reset", 0, 0)

(***************************************************************************)
(* Note.parseChord and Note.fillNoteSpread.                                *)
(***************************************************************************)
\* Note.parseChord(chordNotation, octave), part_001 lines 671-742
parseChord(chordNotation, octave) ==
    LET \* chordIntervals, lines 673-701; an unknown type is a major triad
        ChordIntervals(chordType) ==
            CASE chordType \in {<<"m", "a", "j">>, <<>>} -> <<0, 4, 7>>
              [] chordType \in {<<"m", "i", "n">>, <<"m">>} -> <<0, 3, 7>>
              [] chordType = <<"d", "i", "m">> -> <<0, 3, 6>>
              [] chordType = <<"a", "u", "g">> -> <<0, 4, 8>>
              [] chordType = <<"s", "u", "s", "2">> -> <<0, 2, 7>>
              [] chordType = <<"s", "u", "s", "4">> -> <<0, 5, 7>>
              [] chordType = <<"5">> -> <<0, 7>>
              [] chordType = <<"7">> -> <<0, 4, 7, 10>>
              [] chordType = <<"m", "a", "j", "7">> -> <<0, 4, 7, 11>>
              [] chordType \in {<<"m", "i", "n", "7">>, <<"m", "7">>} -> <<0, 3, 7, 10>>
              [] chordType = <<"d", "i", "m", "7">> -> <<0, 3, 6, 9>>
              [] chordType = <<"a", "u", "g", "7">> -> <<0, 4, 8, 10>>
              [] chordType = <<"m", "a", "j", "9">> -> <<0, 4, 7, 11, 14>>
              [] chordType \in {<<"m", "i", "n", "9">>, <<"m", "9">>} -> <<0, 3, 7, 10, 14>>
              [] chordType = <<"9">> -> <<0, 4, 7, 10, 14>>
              [] chordType = <<"a", "d", "d", "9">> -> <<0, 4, 7, 14>>
              [] chordType = <<"6">> -> <<0, 4, 7, 9>>
              [] chordType \in {<<"m", "i", "n", "6">>, <<"m", "6">>} -> <<0, 3, 7, 9>>
              [] OTHER -> <<0, 4, 7>>
        \* Note.indexOfNotation, lines 424-430
        indexOfNotation(notation) ==
            IF IndexOf(sharpNotations, notation) = 0 - 1
            THEN IndexOf(flatNotations, notation)
            ELSE IndexOf(sharpNotations, notation)
        accidental == Len(chordNotation) >= 2 /\ chordNotation[2] \in {"#", "b"}
        \* chordNotation[0] of the empty string is `undefined`
        root == IF accidental THEN SubSeq(chordNotation, 1, 2)
                ELSE IF Len(chordNotation) = 0 THEN UndefinedString
                ELSE SubSeq(chordNotation, 1, 1)
        chordType == IF accidental THEN SubSeq(chordNotation, 3, Len(chordNotation))
                     ELSE SubSeq(chordNotation, 2, Len(chordNotation))
        intervals == ChordIntervals(chordType)
        rootNote == parseNotation(root \o IntString(octave))
        rootIndex == indexOfNotation(rootNote.notation)
    IN  [k \in 1..Len(intervals) |->
            LET noteIndex == JsRem(rootIndex + intervals[k], Semitones)
            IN  [notation |-> ArrayAt(sharpNotations, noteIndex),
                 octave |-> octave + ((rootIndex + intervals[k]) \div Semitones),
                 secondary |-> FALSE]]

\* transposeNote(note, semitones), part_001 lines 355-393
transposeNote(note, semitones) ==
    IF semitones = 0 THEN note
    ELSE LET sharp == IndexOf(sharpNotations, note.notation)
             flat == IndexOf(flatNotations, note.notation)
             noteIndex == IF sharp # 0 - 1 THEN sharp
                          ELSE IF flat # 0 - 1 THEN flat ELSE 0
             midiNumber == note.octave * 12 + noteIndex
             transposedMidi == midiNumber + semitones
             newOctave == transposedMidi \div 12
             newNoteIndex == JsRem(transposedMidi, 12)
             \* note.notation.includes(c)
             includes(c) == \E i \in 1..Len(note.notation) : note.notation[i] = c
             newNotation == IF includes("#") THEN ArrayAt(sharpNotations, newNoteIndex)
                            ELSE IF includes("b") THEN ArrayAt(flatNotations, newNoteIndex)
                            ELSE ArrayAt(sharpNotations, newNoteIndex)
         IN  [notation |-> newNotation, octave |-> newOctave,
              secondary |-> note.secondary]

\* a spread that is appended after the notes, all of it above the first
fillNoteSpreadAppended(ns, lowerSpread, upperSpread) ==
    IF Len(ns) = 0 THEN <<>>
    ELSE ns \o [c \in 1..(lowerSpread + upperSpread) |->
                  [notation |-> ns[1].notation, octave |-> ns[1].octave + 1,
                   secondary |-> TRUE]]

\* Note.fillNoteSpread(notes, lowerSpread, upperSpread), part_001 lines 633-662
fillNoteSpread(ns, lowerSpread, upperSpread) ==
    IF Len(ns) = 0 THEN <<>>
    ELSE LET upper == [c \in 1..upperSpread |->
                          [notation |-> ns[((c - 1) % Len(ns)) + 1].notation,
                           octave |-> ns[((c - 1) % Len(ns)) + 1].octave
                                      + ((c - 1) \div Len(ns)) + 1,
                           secondary |-> TRUE]]
             lower == [c \in 1..lowerSpread |->
                          [notation |-> ns[Len(ns) - ((c - 1) % Len(ns))].notation,
                           octave |-> ns[Len(ns) - ((c - 1) % Len(ns))].octave
                                      - ((c - 1) \div Len(ns)) - 1,
                           secondary |-> TRUE]]
         IN  lower \o ns \o upper

(***************************************************************************)
(* Actions.setChordInProgression and Actions.incrementChordInProgression,  *)
(* data-helpers.ts lines 433-569, with a name and a number for parameters: *)
(* the progression afterwards, and the list given to strummer.notes        *)
(* (assigned: is there one).                                               *)
(***************************************************************************)
\* lines 467-489 and 537-559: from the chord to the strummer
ApplyChord(moved) ==
    LET chordNotation == getCurrentChord(moved.st)
        chordNotes == IF chordNotation = NoChord THEN <<>>
                      ELSE parseChord(chordNotation, ActionOctave)
    IN  IF chordNotation = NoChord \/ Len(chordNotes) = 0
        THEN [st |-> moved.st, ret |-> moved.ret, assigned |-> FALSE, notes |-> <<>>]
        ELSE [st |-> moved.st, ret |-> moved.ret, assigned |-> TRUE,
              notes |-> fillNoteSpread(chordNotes, NoteSpread, NoteSpread)]

\* lines 458-463 and 528-533: load the progression when it is another one
LoadIfOther(st, name) ==
    IF st.progressionName # name THEN loadProgression(st, name)
    ELSE Returns(st, "none", 0, TRUE)

setChordInProgression(name, index) ==
    LET loaded == LoadIfOther(ProgState, name)
    IN  IF ~loaded.ret.ret
        THEN [st |-> loaded.st, ret |-> loaded.ret, assigned |-> FALSE, notes |-> <<>>]
        ELSE ApplyChord(setIndex(loaded.st, index))

incrementChordInProgression(name, amount) ==
    LET loaded == LoadIfOther(ProgState, name)
    IN  IF ~loaded.ret.ret
        THEN [st |-> loaded.st, ret |-> loaded.ret, assigned |-> FALSE, notes |-> <<>>]
        ELSE ApplyChord(incrementIndex(loaded.st, amount))

\* Actions.setStrumChord, data-helpers.ts lines 389-428, with a chord
\* string, an octave and the two spreads of the strumming configuration
setStrumChord(chordNotation, octave, lowerSpread, upperSpread) ==
    LET chordNotes == parseChord(chordNotation, octave)
        call == [call |-> "setStrumChord",
                 arg |-> <<chordNotation, octave, lowerSpread, upperSpread>>,
                 ret |-> Len(chordNotes) # 0]
    IN  IF Len(chordNotes) = 0
        THEN [st |-> ProgState, ret |-> call, assigned |-> FALSE, notes |-> <<>>]
        ELSE [st |-> ProgState, ret |-> call, assigned |-> TRUE,
              notes |-> fillNoteSpread(chordNotes, lowerSpread, upperSpread)]

(***************************************************************************)
(* The progression and the actions as a state machine.                     *)
(***************************************************************************)
ProgressionNames ==
    {"c-major-pop", "two-chord", "empty", "no-such-progression",
     "constructor", "toString"}
IndexArgs == (0 - MaxArg)..MaxArg

\* field initialisers, lines 58-60; CHORD_PROGRESSIONS as declared
ProgInit ==
    /\ progressions = <<>>
    /\ progressionName = ""     \* null
    /\ chords = List(<<>>)
    /\ currentIndex = 0
    /\ progReturn = [call |-> "none", arg |-> 0, ret |-> 0]

\* the call with outcome e has run on the progression
ProgApply(e) ==
    /\ progressionName' = e.st.progressionName
    /\ chords' = e.st.chords
    /\ currentIndex' = e.st.currentIndex
    /\ progReturn' = e.ret
    /\ UNCHANGED progressions

\* loadChordProgressions(), lines 18-55: the file is read, or the fallback
\* is installed
LoadChordProgressions ==
    /\ progressions = <<>>
    /\ progressions' \in {LoadedProgressions, DefaultProgressions}
    /\ UNCHANGED <<progressionName, chords, currentIndex, progReturn>>
    /\ UNCHANGED <<strumVars, midiVars, hidVars, emitVars, appVars>>

LoadProgression ==
    \E name \in ProgressionNames : \E e \in {loadProgression(ProgState, name)} :
        ProgApply(e) /\ UNCHANGED <<strumVars, midiVars, hidVars, emitVars, appVars>>

SetIndex ==
    \E index \in IndexArgs : \E e \in {setIndex(ProgState, index)} :
        ProgApply(e) /\ UNCHANGED <<strumVars, midiVars, hidVars, emitVars, appVars>>

IncrementIndex ==
    \E amount \in IndexArgs : \E e \in {incrementIndex(ProgState, amount)} :
        ProgApply(e) /\ UNCHANGED <<strumVars, midiVars, hidVars, emitVars, appVars>>

Reset ==
    \E e \in {reset(ProgState)} :
        ProgApply(e) /\ UNCHANGED <<strumVars, midiVars, hidVars, emitVars, appVars>>

\* the strummer after an action: set notes(notes) when a list was assigned
ActionApply(e) ==
    /\ ProgApply(e)
    /\ IF e.assigned
       THEN /\ notes' = e.notes
            /\ ignored' = FALSE
            /\ justCleared' = FALSE
            /\ result' = NoEvent
            /\ UNCHANGED <<width, lastStrummedIndex, lastPressure,
                           pressureThreshold, lastStrumVelocity, pressureBuffer,
                           pendingTapIndex, epi, tapIdx, lastEmittedVel>>
       ELSE UNCHANGED strumVars
    /\ UNCHANGED <<midiVars, hidVars, emitVars, appVars>>

SetChordInProgression ==
    \E name \in ProgressionNames, index \in IndexArgs :
        \E e \in {setChordInProgression(name, index)} : ActionApply(e)

IncrementChordInProgression ==
    \E name \in ProgressionNames, amount \in IndexArgs :
        \E e \in {incrementChordInProgression(name, amount)} : ActionApply(e)

\* the chords a button is configured with: plain, flat and sharp roots,
\* suffixes of the table, a suffix outside it, a root that is no note, ""
ChordSymbols ==
    { <<"C">>, <<"A", "m", "7">>, <<"B", "b">>, <<"F", "#", "m">>,
      <<"B", "9">>, <<"D", "5">>, <<"G", "x">>, <<"H">>, <<>> }
\* in the default octave, the last one-digit octave, a two-digit octave
SetStrumChord ==
    \E chordNotation \in ChordSymbols, octave \in {ActionOctave, 9, MaxOctave},
       lowerSpread \in 0..MaxSpread, upperSpread \in 0..MaxSpread :
        \E e \in {setStrumChord(chordNotation, octave, lowerSpread, upperSpread)} :
            ActionApply(e)

(***************************************************************************)
(* applyCurve and calculateEffectValue, data-helpers.ts lines 122-171.     *)
(* Inputs and curved values are multiples of 1/EScale; an effect value is  *)
(* kept in units of 1/EScale as well.  The exponential of line 135 is not  *)
(* computed: (e^(k v) - 1) / (e^k - 1) is 0/0 = NaN for k = 0, and for     *)
(* another k some value strictly between 0 and 1 when v is.  Each function *)
(* gives the set of the values it may return.                              *)
(***************************************************************************)
\* applyCurve(value, curve, [0.0, 1.0])
applyCurve(value, curve) ==
    IF value <= 0 THEN {0}
    ELSE IF value >= EScale THEN {EScale}
    ELSE IF curve = 1 THEN {value}
    ELSE IF curve = 0 THEN {NaN}
    ELSE 1..(EScale - 1)

\* calculateEffectValue(inputValue, minVal, maxVal, multiplier, curve, spread)
calculateEffectValue(inputValue, minVal, maxVal, multiplier, curve, spread) ==
    LET scaledInput == Max(0, Min(EScale, inputValue * multiplier))
        \* Math.abs(scaledInput - 0.5) * 2.0
        distanceFromCenter == IF 2 * scaledInput >= EScale
                              THEN 2 * scaledInput - EScale
                              ELSE EScale - 2 * scaledInput
        curved == IF spread = "central" THEN applyCurve(distanceFromCenter, curve)
                  ELSE applyCurve(scaledInput, curve)
    IN  {IF c = NaN THEN NaN
         ELSE IF spread \in {"central", "inverse"}
         THEN maxVal * EScale - c * (maxVal - minVal)
         ELSE minVal * EScale + c * (maxVal - minVal) : c \in curved}

\* applyEffect, lines 176-199: an effect value is computed from a control
\* input, off the 0..1 range as well, and the effect's configuration
CalculateEffectValue ==
    \E in \in [inputValue : (0 - 1)..(EScale + 1),
               range : {<<0, 1>>, <<20, 127>>},
               multiplier : (0 - 1)..2,
               curve : {0 - 4, 0, 1, 4},
               spread : {"direct", "inverse", "central"}] :
        \E out \in calculateEffectValue(in.inputValue, in.range[1], in.range[2],
                                        in.multiplier, in.curve, in.spread) :
            /\ progReturn' = [call |-> "calculateEffectValue", arg |-> in,
                              ret |-> out]
            /\ UNCHANGED <<progressions, progressionName, chords, currentIndex>>
            /\ UNCHANGED <<strumVars, midiVars, hidVars, emitVars, appVars>>

\* transposeNote(noteToPlay, transposeSemitones): the notes a strum plays
\* and the transpose amounts configured, up to an octave and a semitone
\* either way, on sharp, flat and plain spellings from octave 0 up
TransposeNote ==
    \E in \in [note : [notation : {<<"C">>, <<"G">>, <<"F", "#">>, <<"B", "b">>},
                       octave : 0..MaxNoteOctave, secondary : {FALSE}],
               semitones : {0 - Semitones - 1, 0 - Semitones, 0 - 1, 0, 1,
                            Semitones}] :
        /\ progReturn' = [call |-> "transposeNote", arg |-> in,
                          ret |-> transposeNote(in.note, in.semitones)]
        /\ UNCHANGED <<progressions, progressionName, chords, currentIndex>>
        /\ UNCHANGED <<strumVars, midiVars, hidVars, emitVars, appVars>>

ProgNext ==
    \/ LoadChordProgressions
    \/ LoadProgression
    \/ SetIndex
    \/ IncrementIndex
    \/ Reset
    \/ SetChordInProgression
    \/ IncrementChordInProgression

(***************************************************************************)
(* loadChordProgressions (utils/music/chord-progression-state, lines       *)
(* 12-55) as its callers and the host interleave: a call runs to the first *)
(* await, the body of the load resumes when the fetch and then the parse   *)
(* of the response settle.  A promise is "pending", "fulfilled" or         *)
(* "rejected".  A file is the sequence of its categories, each a map from  *)
(* progression names to chord lists, or the JSON value null.               *)
(***************************************************************************)
File(categories) == [null |-> FALSE, categories |-> categories]
NullFile == [null |-> TRUE, categories |-> <<>>]
ChordFiles ==
    { File(<<DefaultProgressions,
             ("two-chord" :> List(<< <<"D", "m", "7">>, <<"G", "7">> >>))
             @@ ("empty" :> List(<<>>))>>),
      File(<<("c-major-pop" :> List(<< <<"D">> >>)), DefaultProgressions>>),
      File(<<("two-chord" :> List(<< <<"D", "m", "7">>, <<"G", "7">> >>))>>),
      File(<<>>),
      NullFile }

\* Object.assign(target, category)
ObjectAssign(target, category) ==
    [k \in (DOMAIN target) \cup (DOMAIN category) |->
        IF k \in DOMAIN category THEN category[k] ELSE target[k]]

\* lines 37-40: CHORD_PROGRESSIONS = {}, then every category assigned
RECURSIVE Flatten(_, _)
Flatten(target, categories) ==
    IF categories = <<>> THEN target
    ELSE Flatten(ObjectAssign(target, Head(categories)), Tail(categories))

\* let progressionsLoaded = false; let loadPromise = null (lines 12-13)
LoaderInit ==
    /\ progressionsLoaded = FALSE
    /\ loadPromise = "null"
    /\ loadBody = "idle"
    /\ fetchCount = 0
    /\ loadCallers = <<>>

\* a call that looks at progressionsLoaded only
loadChordProgressionsUnlessLoaded ==
    IF progressionsLoaded THEN [got |-> "resolved", starts |-> FALSE]
    ELSE [got |-> "loadPromise", starts |-> TRUE]

\* loadChordProgressions() up to its return, lines 18-29 and 54: the
\* promise handed back, and whether the body of the load was started
loadChordProgressions ==
    IF loadPromise # "null" THEN [got |-> "loadPromise", starts |-> FALSE]
    ELSE IF progressionsLoaded THEN [got |-> "resolved", starts |-> FALSE]
    ELSE [got |-> "loadPromise", starts |-> TRUE]

\* the catch block, lines 45-51, and the end of the body
loadFailed ==
    [progressions |-> DefaultProgressions, loaded |-> progressionsLoaded,
     body |-> "failed", promise |-> "fulfilled"]

\* lines 35-44 once the response has been parsed
loadParsed(data) ==
    IF data.null THEN loadFailed            \* Object.values(null) throws
    ELSE [progressions |-> Flatten(<<>>, data.categories), loaded |-> TRUE,
          body |-> "loaded", promise |-> "fulfilled"]

\* a caller calls loadChordProgressions(); the body runs to the fetch
CallLoadChordProgressions ==
    /\ Len(loadCallers) < MaxCalls
    /\ \E e \in {loadChordProgressions} :
         /\ loadCallers' = Append(loadCallers, [during |-> loadBody, got |-> e.got])
         /\ IF e.starts
            THEN /\ fetchCount' = fetchCount + 1
                 /\ loadBody' = "fetch"
                 /\ loadPromise' = "pending"
            ELSE UNCHANGED <<fetchCount, loadBody, loadPromise>>
    /\ UNCHANGED <<progressionsLoaded, progVars>>
    /\ UNCHANGED <<strumVars, midiVars, hidVars, emitVars, ctlVars, wsVars, btnVars>>

LoadEnds(e) ==
    /\ progressions' = e.progressions
    /\ progressionsLoaded' = e.loaded
    /\ loadBody' = e.body
    /\ loadPromise' = e.promise
    /\ UNCHANGED <<fetchCount, loadCallers>>
    /\ UNCHANGED <<progressionName, chords, currentIndex, progReturn>>
    /\ UNCHANGED <<strumVars, midiVars, hidVars, emitVars, ctlVars, wsVars, btnVars>>

\* the fetch settles, lines 31-34: rejected, a response that is not ok, or
\* a response whose body is then read
FetchSettles ==
    /\ loadBody = "fetch"
    /\ \E outcome \in {"rejected", "notOk", "ok"} :
         IF outcome = "ok"
         THEN /\ loadBody' = "json"
              /\ UNCHANGED <<progressionsLoaded, loadPromise, fetchCount,
                             loadCallers, progVars>>
              /\ UNCHANGED <<strumVars, midiVars, hidVars, emitVars, ctlVars, wsVars, btnVars>>
         ELSE LoadEnds(loadFailed)

\* response.json() settles, lines 35-44: rejected, or a file
JsonSettles ==
    /\ loadBody = "json"
    /\ \/ LoadEnds(loadFailed)
       \/ \E data \in ChordFiles : LoadEnds(loadParsed(data))

\* the application reads CHORD_PROGRESSIONS whenever it likes
UseProgression == LoadProgression

LoadNext ==
    \/ CallLoadChordProgressions
    \/ FetchSettles
    \/ JsonSettles
    \/ UseProgression

(***************************************************************************)
(* TabletController (part_002): the connect path, handleDeviceConnect and  *)
(* setupDevice with its awaits of close and startReading, and the          *)
(* device-disconnect callback, called by the device finder as devices come *)
(* and go.  A device is a number; a setupDevice call resumes when what it  *)
(* awaits settles.                                                         *)
(***************************************************************************)
Devices == 1..2

\* field initialisers, lines 82-90
ControllerInit ==
    /\ connected = FALSE
    /\ deviceInfo = Null
    /\ hidReader = Null
    /\ hidDevice = Null
    /\ allHidDevices = {}
    /\ readers = <<>>
    /\ setups = {}
    /\ connectCount = 0
    /\ lastConnection = "none"
    /\ connectedBy = [call |-> 0, cut |-> FALSE]

\* the controller's fields and the readers, as a call leaves them
Controller ==
    [connected |-> connected, deviceInfo |-> deviceInfo,
     hidReader |-> hidReader, hidDevice |-> hidDevice, readers |-> readers,
     lastConnection |-> lastConnection, connectedBy |-> connectedBy,
     waits |-> "no"]

\* this.hidReader?.stop()
StopReader(st) ==
    IF st.hidReader = Null THEN st.readers
    ELSE [st.readers EXCEPT ![st.hidReader].isRunning = FALSE]

\* the catch block of setupDevice, lines 242-247
setupFailed(st) ==
    [st EXCEPT !.connected = FALSE, !.deviceInfo = Null,
               !.lastConnection = "disconnected", !.waits = "no"]

\* setupDevice from the device check to the await of startReading, lines
\* 217-233; startReading sets isRunning before its first await
setupReader(st) ==
    IF st.hidDevice = Null THEN setupFailed(st)
    ELSE [st EXCEPT !.readers = Append(st.readers, [device |-> st.hidDevice,
                                                    isRunning |-> TRUE]),
                    !.hidReader = Len(st.readers) + 1,
                    !.waits = "start"]

\* setupDevice up to its first await, lines 209-215
setupDevice(st) ==
    IF st.hidReader # Null
    THEN [st EXCEPT !.readers = StopReader(st), !.waits = "close"]
    ELSE setupReader(st)

\* setupDevice once close() has settled, lines 214-233
setupClosed(st) == setupReader([st EXCEPT !.hidReader = Null])

\* setupDevice once startReading() has resolved, lines 233-241
setupStarted(st, s) ==
    [st EXCEPT !.connected = TRUE, !.lastConnection = "connected",
               !.connectedBy = s, !.waits = "no"]

\* handleDeviceDisconnect(), lines 183-192
handleDeviceDisconnect(st) ==
    [st EXCEPT !.connected = FALSE, !.deviceInfo = Null,
               !.readers = StopReader(st), !.hidReader = Null,
               !.hidDevice = Null, !.lastConnection = "disconnected"]

\* the call with outcome e has run on the controller
ControllerApply(e) ==
    /\ connected' = e.connected
    /\ deviceInfo' = e.deviceInfo
    /\ hidReader' = e.hidReader
    /\ hidDevice' = e.hidDevice
    /\ readers' = e.readers
    /\ lastConnection' = e.lastConnection
    /\ connectedBy' = e.connectedBy
    /\ UNCHANGED <<loadVars, wsVars, btnVars>>
    /\ UNCHANGED <<strumVars, midiVars, hidVars, progVars, emitVars>>

\* the setupDevice call s goes on waiting at e.waits, or has ended
Waiting(s, e) ==
    IF e.waits = "no" THEN {} ELSE {[s EXCEPT !.at = e.waits]}

\* the finder reports a device: handleDeviceConnect(result), lines 197-203,
\* and setupDevice to its first await
HandleDeviceConnect ==
    /\ connectCount < MaxConnects
    /\ \E device \in Devices, others \in SUBSET Devices :
         \E e \in {setupDevice([Controller EXCEPT !.hidDevice = device,
                                                  !.deviceInfo = device])} :
            /\ ControllerApply(e)
            /\ allHidDevices' = {device} \cup others
            /\ connectCount' = connectCount + 1
            /\ setups' = setups \cup
                   Waiting([call |-> connectCount + 1, at |-> "", cut |-> FALSE], e)

\* what a setupDevice call awaits settles: close() resolves; startReading()
\* resolves or rejects
SetupResumes ==
    \E s \in setups :
        \E e \in IF s.at = "close" THEN {setupClosed(Controller)}
                 ELSE {setupStarted(Controller, [call |-> s.call, cut |-> s.cut]),
                       setupFailed(Controller)} :
            /\ ControllerApply(e)
            /\ setups' = (setups \ {s}) \cup Waiting(s, e)
            /\ UNCHANGED <<allHidDevices, connectCount>>

\* the finder reports that the device has gone
HandleDeviceDisconnect ==
    /\ \E e \in {handleDeviceDisconnect(Controller)} : ControllerApply(e)
    /\ allHidDevices' = {}
    /\ setups' = {[s EXCEPT !.cut = TRUE] : s \in setups}
    /\ UNCHANGED connectCount

ControllerNext ==
    \/ HandleDeviceConnect
    \/ SetupResumes
    \/ HandleDeviceDisconnect

(***************************************************************************)
(* StrummerApp (part_004): connectWebSocket, disconnectWebSocket and the   *)
(* open, error and close handlers connectWebSocket puts on each socket.    *)
(* A socket is a number; the host moves it from "connecting" to "open",    *)
(* "closing" and "closed" and calls its handlers.  Messages are left out.  *)
(***************************************************************************)
\* field initialisers
SocketInit ==
    /\ webSocket = Undefined
    /\ connectionStatus = "disconnected"
    /\ connectionError = ""
    /\ panelMinimized = FALSE
    /\ sockets = <<>>

\* the fields the handlers write
Connection ==
    [status |-> connectionStatus, error |-> connectionError,
     minimized |-> panelMinimized]

\* webSocket.onopen, lines 172-182
onopen(st) == [status |-> "connected", error |-> "", minimized |-> TRUE]

\* webSocket.onerror, lines 265-275
onerror(st) ==
    [status |-> "error", error |-> "Failed to connect to server",
     minimized |-> FALSE]

\* webSocket.onclose, lines 277-289
onclose(st) ==
    IF st.status = "connected"
    THEN [status |-> "disconnected", error |-> "Connection closed",
          minimized |-> FALSE]
    ELSE [st EXCEPT !.minimized = FALSE]

\* the fields after a call or a handler
ConnectionApply(e) ==
    /\ connectionStatus' = e.status
    /\ connectionError' = e.error
    /\ panelMinimized' = e.minimized
    /\ UNCHANGED <<loadVars, ctlVars, btnVars>>
    /\ UNCHANGED <<strumVars, midiVars, hidVars, progVars, emitVars>>

HeldOpen == webSocket # Undefined /\ sockets[webSocket] = "open"

\* connectWebSocket(address), lines 161-306: nothing when the socket held
\* is open; else a new socket replaces the one held, or the constructor
\* throws on the address and the catch block runs
ConnectWebSocket ==
    /\ Len(sockets) < MaxSockets
    /\ ~HeldOpen
    /\ \E throws \in BOOLEAN :
         IF throws
         THEN /\ ConnectionApply([status |-> "error", error |-> "SyntaxError",
                                  minimized |-> FALSE])
              /\ UNCHANGED <<webSocket, sockets>>
         ELSE /\ ConnectionApply([Connection EXCEPT !.status = "connecting",
                                                    !.error = ""])
              /\ sockets' = Append(sockets, "connecting")
              /\ webSocket' = Len(sockets) + 1

\* disconnectWebSocket(), lines 308-322
DisconnectWebSocket ==
    /\ webSocket # Undefined
    /\ sockets' = [sockets EXCEPT ![webSocket] =
                      IF @ = "closed" THEN "closed" ELSE "closing"]
    /\ webSocket' = Undefined
    /\ ConnectionApply([status |-> "disconnected", error |-> "",
                        minimized |-> FALSE])

\* the connection of a socket is established: its open event
SocketOpens ==
    \E s \in 1..Len(sockets) :
        /\ sockets[s] = "connecting"
        /\ sockets' = [sockets EXCEPT ![s] = "open"]
        /\ ConnectionApply(onopen(Connection))
        /\ UNCHANGED webSocket

\* the connection of a socket fails: its error event, then its close event
SocketFails ==
    \E s \in 1..Len(sockets) :
        /\ sockets[s] # "closed"
        /\ sockets' = [sockets EXCEPT ![s] = "closed"]
        /\ ConnectionApply(onclose(onerror(Connection)))
        /\ UNCHANGED webSocket

\* a socket is closed, by the server or after close(): its close event
SocketCloses ==
    \E s \in 1..Len(sockets) :
        /\ sockets[s] \in {"open", "closing"}
        /\ sockets' = [sockets EXCEPT ![s] = "closed"]
        /\ ConnectionApply(onclose(Connection))
        /\ UNCHANGED webSocket

SocketNext ==
    \/ ConnectWebSocket
    \/ DisconnectWebSocket
    \/ SocketOpens
    \/ SocketFails
    \/ SocketCloses

(***************************************************************************)
(* TabletController (part_002): the tablet buttons.  Three paths report a  *)
(* button: the frames of the main interface (handleHIDData), the reports   *)
(* of a secondary interface (setupButtonListeners, code or bit-flags       *)
(* mode) and keyboard events (setupKeyboardButtonListeners).               *)
(***************************************************************************)
NumButtons == Len(ButtonKeys)

\* constructor, lines 115-118
ButtonInit ==
    /\ tabletButtonState = [i \in 1..NumButtons |-> FALSE]
    /\ buttonEvents = [i \in 1..NumButtons |-> <<>>]

Buttons == [state |-> tabletButtonState, events |-> buttonEvents]

\* this.tabletButtonState[buttonKey] = pressed;
\* this.emit('tablet-button', { buttonNumber, pressed })
EmitButton(bs, buttonNum, pressed) ==
    [state |-> [bs.state EXCEPT ![buttonNum] = pressed],
     events |-> [bs.events EXCEPT ![buttonNum] = Append(@, pressed)]]

\* a press that emits whatever the tracked state
handleTabletButtonPressAlways(bs, buttonNum) == EmitButton(bs, buttonNum, TRUE)

\* handleTabletButtonPress(buttonNum), lines 417-423
handleTabletButtonPress(bs, buttonNum) ==
    IF ~bs.state[buttonNum] THEN EmitButton(bs, buttonNum, TRUE) ELSE bs

\* the release of the keyup listener and of stylus mode, lines 339-342
\* and 403-406
releaseButton(bs, buttonNum) ==
    IF bs.state[buttonNum] THEN EmitButton(bs, buttonNum, FALSE) ELSE bs

\* `if (buttonPressed !== wasPressed)`, lines 330-333 and 475-479
changeButton(bs, buttonNum, buttonPressed) ==
    IF buttonPressed # bs.state[buttonNum]
    THEN EmitButton(bs, buttonNum, buttonPressed) ELSE bs

\* Boolean(result[buttonKey])
Truthy(frame, key) == key \in DOMAIN frame /\ frame[key].n # 0

\* handleHIDData, lines 469-480: buttons i..8 of the frame
RECURSIVE mainInterfaceButtons(_, _, _)
mainInterfaceButtons(bs, frame, i) ==
    IF i > NumButtons THEN bs
    ELSE mainInterfaceButtons(changeButton(bs, i, Truthy(frame, ButtonKey(i))),
                              frame, i + 1)

\* this.config.mappings.tabletButtons and .status
ButtonConfig ==
    hidConfig.mappings[CHOOSE j \in 1..Len(hidConfig.mappings) :
                          hidConfig.mappings[j].key = "tabletButtons"]
HasButtonConfig ==
    \E j \in 1..Len(hidConfig.mappings) : hidConfig.mappings[j].key = "tabletButtons"
StatusConfig ==
    hidConfig.mappings[CHOOSE j \in 1..Len(hidConfig.mappings) :
                          hidConfig.mappings[j].key = "status"]

\* lines 270-279: the status byte whose state is 'buttons', null when none
ButtonModeValue ==
    LET found == {v \in DOMAIN StatusConfig.values :
                    /\ "state" \in DOMAIN StatusConfig.values[v]
                    /\ StatusConfig.values[v]["state"].s = "buttons"}
    IN  IF found = {} THEN Null
        ELSE CHOOSE v \in found : \A w \in found : v <= w

\* lines 320-334: the bits of buttons i+1..buttonCount
RECURSIVE bitFlagButtons(_, _, _)
bitFlagButtons(bs, buttonBits, i) ==
    IF i >= ButtonConfig.buttonCount THEN bs
    ELSE bitFlagButtons(
             changeButton(bs, i + 1,
                          buttonBits # Undefined
                          /\ (buttonBits \div (2 ^ i)) % 2 = 1),
             buttonBits, i + 1)

\* lines 335-344: stylus mode clears buttons i..buttonCount
RECURSIVE clearButtons(_, _)
clearButtons(bs, i) ==
    IF i > ButtonConfig.buttonCount THEN bs
    ELSE clearButtons(releaseButton(bs, i), i + 1)

\* the inputreport listener of a secondary interface, lines 284-346
secondaryReport(bs, reportId, data) ==
    IF reportId = ButtonInterfaceReportId /\ ButtonConfig.type = "code"
    THEN LET byteValue == ByteAt(data, ButtonConfig.byteIndex)
             valuesMap == ButtonConfig.values
         IN  IF /\ byteValue \in DOMAIN valuesMap
                /\ "button" \in DOMAIN valuesMap[byteValue]
                /\ valuesMap[byteValue]["button"].n # 0
             THEN handleTabletButtonPress(bs, valuesMap[byteValue]["button"].n)
             ELSE bs
    ELSE IF reportId = hidConfig.reportId
    THEN LET statusByte == ByteAt(data, StatusConfig.byteIndex)
         IN  IF ButtonModeValue # Null /\ statusByte = ButtonModeValue
             THEN bitFlagButtons(bs, ByteAt(data, ButtonConfig.byteIndex), 0)
             ELSE IF statusByte = StylusModeStatusByte
             THEN clearButtons(bs, 1)
             ELSE bs
    ELSE bs

\* the buttons after a handler; the events kept are bounded
ButtonsApply(e) ==
    /\ \A i \in 1..NumButtons : Len(e.events[i]) <= MaxButtonEvents
    /\ tabletButtonState' = e.state
    /\ buttonEvents' = e.events

ButtonsOnly ==
    /\ UNCHANGED <<loadVars, ctlVars, wsVars>>
    /\ UNCHANGED <<strumVars, midiVars, hidVars, progVars, emitVars>>

\* a secondary interface of the device sends a report
SecondaryReport ==
    /\ HasButtonConfig
    /\ ButtonConfig.type # "keyboard-events"
    /\ \E reportId \in {PrimaryReportId, ButtonInterfaceReportId},
          n \in 0..2 :
         \E data \in ReportsOfLength(n) :
            ButtonsApply(secondaryReport(Buttons, reportId, data))
    /\ ButtonsOnly

\* the keys mapped to buttons by buttonConfig.keyMappings
KeyButtons == 1..2

\* a keydown that matches the mapping of a button, lines 358-383
KeyDown ==
    /\ HasButtonConfig
    /\ ButtonConfig.type = "keyboard-events"
    /\ \E buttonNum \in KeyButtons :
         ButtonsApply(handleTabletButtonPress(Buttons, buttonNum))
    /\ ButtonsOnly

\* a keyup that matches the key of a button, lines 391-411
KeyUp ==
    /\ HasButtonConfig
    /\ ButtonConfig.type = "keyboard-events"
    /\ \E buttonNum \in KeyButtons :
         ButtonsApply(releaseButton(Buttons, buttonNum))
    /\ ButtonsOnly

\* the application as constructed
AppInit == LoaderInit /\ ControllerInit /\ SocketInit /\ ButtonInit

(***************************************************************************)
(* EventEmitter (utils/event-emitter), for one event type.  A registered   *)
(* function is [id, once, reemits]: once, when it is the wrapper made by   *)
(* once(); reemits, when its body emits the event again.                   *)
(***************************************************************************)
\* private callbacks = new Map(), line 8
EmitterInit ==
    /\ emitterCallbacks = <<>>
    /\ emitStack = <<>>
    /\ invocations = [id \in 1..MaxListeners |-> [once |-> FALSE, count |-> 0]]
    /\ nextListener = 1
    /\ emitCount = 0
    /\ reentered = FALSE

\* off(eventType, callback), lines 41-46: Set.delete
off(registered, callback) == SelectSeq(registered, LAMBDA c : c # callback)

\* on(eventType, callback), lines 15-20, with a function not yet registered
On ==
    \E reemits \in BOOLEAN :
        /\ emitStack = <<>>      \* called from outside every callback
        /\ nextListener <= MaxListeners
        /\ emitterCallbacks' =
               Append(emitterCallbacks,
                      [id |-> nextListener, once |-> FALSE, reemits |-> reemits])
        /\ nextListener' = nextListener + 1
        /\ invocations' = [invocations EXCEPT ![nextListener].once = FALSE]
        /\ UNCHANGED <<emitStack, emitCount, reentered>>
        /\ UNCHANGED <<strumVars, midiVars, hidVars, progVars, appVars>>

\* once(eventType, callback), lines 27-33: on() of a new wrapper
Once ==
    \E reemits \in BOOLEAN :
        /\ emitStack = <<>>      \* called from outside every callback
        /\ nextListener <= MaxListeners
        /\ emitterCallbacks' =
               Append(emitterCallbacks,
                      [id |-> nextListener, once |-> TRUE, reemits |-> reemits])
        /\ nextListener' = nextListener + 1
        /\ invocations' = [invocations EXCEPT ![nextListener].once = TRUE]
        /\ UNCHANGED <<emitStack, emitCount, reentered>>
        /\ UNCHANGED <<strumVars, midiVars, hidVars, progVars, appVars>>

\* off(eventType, callback) of a function given to on(); the wrapper of
\* once() is known to nobody but itself
Off ==
    \E i \in 1..Len(emitterCallbacks) :
        /\ emitStack = <<>>      \* called from outside every callback
        /\ ~emitterCallbacks[i].once
        /\ emitterCallbacks' = off(emitterCallbacks, emitterCallbacks[i])
        /\ UNCHANGED <<emitStack, invocations, nextListener, emitCount,
                       reentered>>
        /\ UNCHANGED <<strumVars, midiVars, hidVars, progVars, appVars>>

\* clear(eventType), lines 71-77
Clear ==
    /\ emitStack = <<>>      \* called from outside every callback
    /\ emitterCallbacks # <<>>
    /\ emitterCallbacks' = <<>>
    /\ UNCHANGED <<emitStack, invocations, nextListener, emitCount, reentered>>
    /\ UNCHANGED <<strumVars, midiVars, hidVars, progVars, appVars>>

\* emit(eventType, data), lines 53-57: callbackArray = Array.from(callbacks)
Emit ==
    /\ emitStack = <<>>      \* called from outside every callback
    /\ emitCount < MaxEmits
    /\ emitCount' = emitCount + 1
    /\ emitStack' = <<emitterCallbacks>>
    /\ UNCHANGED <<emitterCallbacks, invocations, nextListener, reentered>>
    /\ UNCHANGED <<strumVars, midiVars, hidVars, progVars, appVars>>

\* the loop of the innermost emit, lines 58-64: it calls the next function
\* of its callbackArray, or returns.  A wrapper first takes itself off
\* (line 29) and then runs the function given to once() (line 30); a body
\* that reemits calls emit() before it returns.
EmitStep ==
    /\ emitStack # <<>>
    /\ LET top == Len(emitStack)
           left == emitStack[top]
       IN  IF left = <<>>
           THEN /\ emitStack' = SubSeq(emitStack, 1, top - 1)
                /\ UNCHANGED <<emitterCallbacks, invocations, reentered>>
           ELSE LET callback == Head(left)
                    after == IF callback.once
                             THEN off(emitterCallbacks, callback)
                             ELSE emitterCallbacks
                    rest == [emitStack EXCEPT ![top] = Tail(left)]
                    nested == callback.reemits /\ top < MaxDepth
                IN  /\ emitterCallbacks' = after
                    /\ invocations' =
                           [invocations EXCEPT ![callback.id].count = @ + 1]
                    /\ emitStack' = IF nested THEN Append(rest, after)
                                    ELSE rest
                    /\ reentered' = (reentered \/ nested)
    /\ UNCHANGED <<nextListener, emitCount>>
    /\ UNCHANGED <<strumVars, midiVars, hidVars, progVars, appVars>>

EmitNext ==
    \/ On
    \/ Once
    \/ Off
    \/ Clear
    \/ Emit
    \/ EmitStep

(***************************************************************************)
(* Midi: channels, keys and wire messages.                                 *)
(***************************************************************************)
\* Array.from({ length: 16 }, (_, i) => i)
AllChannels == [i \in 1..NumChannels |-> i - 1]

\* configured channel 1..16 to the channel on the wire
WireChannel(c) == c - 1

\* sendNote / releaseNotes / sendPitchBend: the strum channel or all 16
StrumChannels ==
    IF midiStrumChannel # Null THEN <<WireChannel(midiStrumChannel)>>
    ELSE AllChannels

\* a resolution that prefers the configured strum channel to the explicit one
RawChannelsStrumFirst(channel) ==
    IF midiStrumChannel # Null THEN <<midiStrumChannel - 1>>
    ELSE IF channel # Null THEN <<channel - 1>>
    ELSE [i \in 1..NumChannels |-> i - 1]

\* sendRawNote, lines 633-640
RawChannels(channel) ==
    IF channel # Null THEN <<WireChannel(channel)>>
    ELSE IF midiStrumChannel # Null THEN <<WireChannel(midiStrumChannel)>>
    ELSE AllChannels

\* `${midiNote}-${channels.join(',')}`: the pitch, then the channels
NoteKey(midiNote, channels) == <<midiNote>> \o channels
KeyPitch(key) == Head(key)
KeyChannels(key) == Tail(key)

NoteOns(channels, midiNote, velocity) ==
    [i \in 1..Len(channels) |-> <<NoteOn + channels[i], midiNote, velocity>>]
NoteOffs(channels, midiNote) ==
    [i \in 1..Len(channels) |->
        <<NoteOff + channels[i], midiNote, ReleaseVelocity>>]

\* a set that keeps the value a key already has; a delete that deletes nothing
MapSetKeep(m, k, v) ==
    [x \in (DOMAIN m) \cup {k} |-> IF x \in DOMAIN m THEN m[x] ELSE v]
MapDeleteNone(m, k) == m

\* Map.set / Map.delete
MapSet(m, k, v) == [x \in (DOMAIN m) \cup {k} |-> IF x = k THEN v ELSE m[x]]
MapDelete(m, k) == [x \in (DOMAIN m) \ {k} |-> m[x]]
EmptyMap == <<>>

\* a clearTimeout that leaves the timeout pending
ClearTimeoutNoop(pending, handle) == pending

\* window.clearTimeout(handle)
ClearTimeout(pending, handle) == {t \in pending : t.id # handle}

\* a send path without the output guard
HasOutputAlways == TRUE

\* the guard `if (!this.midiOut) return`
HasOutput == midiOut

(***************************************************************************)
(* Inputs of the Midi calls.                                               *)
(***************************************************************************)
Channels == 1..NumChannels
UndefinedNote == [notation |-> <<>>, octave |-> 0]   \* `undefined`
C4Note == [notation |-> <<"C">>, octave |-> 4]
\* an octave of two digits is what transposeNote and fillNoteSpread hand on
MidiNotes == {C4Note, [notation |-> <<"C", "#">>, octave |-> MaxOctave]}
RawPitches == {48}
Velocities == {100}
Durations == {1, 2}
ExplicitChannels == {Null, 2}
Bends == (0 - BendScale - 1)..(BendScale + 1)
ReleaseLists == {<<>>, <<C4Note>>, <<C4Note, C4Note>>}
                \cup {<<C4Note, n>> : n \in MidiNotes}

(***************************************************************************)
(* The effect of a Midi call: the fields and the host's timers after it,   *)
(* the messages it handed to midiOut.send in order, whether it threw.      *)
(***************************************************************************)
Same ==
    [ant |-> activeNoteTimers, nst |-> noteStartTimes, pending |-> timers,
     nextId |-> nextTimerId, out |-> <<>>, threw |-> FALSE,
     hist |-> hist, dead |-> dead, quiet |-> quiet]

\* the common body of sendNote (lines 587-623) and sendRawNote (642-676)
\* on the instance as the calls before it in the same handler left it
ScheduleOn(st, midiNote, velocity, channels, duration) ==
    LET noteKey == NoteKey(midiNote, channels)
        hadTimer == noteKey \in DOMAIN st.ant
        oldTimer == st.ant[noteKey]
        cleared == IF hadTimer THEN ClearTimeout(st.pending, oldTimer)
                   ELSE st.pending
        timer == [id |-> st.nextId, due |-> now + duration, key |-> noteKey]
    IN  [ant |-> MapSet(st.ant, noteKey, st.nextId),
         nst |-> MapSet(st.nst, noteKey, now),
         pending |-> cleared \cup {timer},
         nextId |-> st.nextId + 1,
         out |-> st.out \o NoteOns(channels, midiNote, velocity),
         threw |-> FALSE,
         hist |-> MapSet(st.hist, noteKey,
                         [due |-> now + duration, fires |-> 0,
                          retrig |-> \E t \in st.pending : t.key = noteKey,
                          cancelled |-> "no"]),
         dead |-> IF hadTimer THEN st.dead \cup {oldTimer} ELSE st.dead,
         quiet |-> FALSE]

Schedule(midiNote, velocity, channels, duration) ==
    ScheduleOn(Same, midiNote, velocity, channels, duration)

\* sendNote(note, velocity, duration), lines 577-624; reading .notation of
\* an undefined note is a TypeError, raised before anything changed
sendNote(note, velocity, duration) ==
    IF ~HasOutput THEN Same
    ELSE IF note = UndefinedNote THEN [Same EXCEPT !.threw = TRUE]
    ELSE Schedule(NoteToMIDI(note), velocity, StrumChannels, duration)

\* sendRawNote(midiNote, velocity, channel, duration), lines 629-677
sendRawNote(midiNote, velocity, channel, duration) ==
    IF ~HasOutput THEN Same
    ELSE Schedule(midiNote, velocity, RawChannels(channel), duration)

\* the loop of releaseNotes, lines 553-571, over the notes left
RECURSIVE ReleaseLoop(_, _, _)
ReleaseLoop(ns, channels, st) ==
    IF ns = <<>> THEN st
    ELSE
        LET midiNote == NoteToMIDI(Head(ns))
            noteKey == NoteKey(midiNote, channels)
            hadTimer == noteKey \in DOMAIN st.ant
            timer == st.ant[noteKey]
        IN  ReleaseLoop(Tail(ns), channels,
                [st EXCEPT
                 !.ant = IF hadTimer THEN MapDelete(st.ant, noteKey) ELSE st.ant,
                 !.nst = MapDelete(st.nst, noteKey),
                 !.pending = IF hadTimer THEN ClearTimeout(st.pending, timer)
                             ELSE st.pending,
                 !.out = st.out \o NoteOffs(channels, midiNote),
                 !.dead = IF hadTimer THEN st.dead \cup {timer} ELSE st.dead,
                 !.hist = IF hadTimer
                          THEN [st.hist EXCEPT ![noteKey].cancelled = "release"]
                          ELSE st.hist])

\* releaseNotes(notes), lines 544-572
releaseNotes(ns) ==
    IF ~HasOutput \/ Len(ns) = 0 THEN Same
    ELSE ReleaseLoop(ns, StrumChannels, [Same EXCEPT !.quiet = FALSE])

\* a conversion without the clamp of line 522
BendValueUnclamped(b) ==
    LET clamped == Max(0 - BendScale, Min(BendScale, b))
    IN  ((clamped + BendScale) * BendCenter) \div BendScale

\* sendPitchBend(bendValue), lines 514-539; bendValue in units of 1/BendScale
BendValue(b) ==
    LET clamped == Max(0 - BendScale, Min(BendScale, b))
    IN  Max(0, Min(BendMax, ((clamped + BendScale) * BendCenter) \div BendScale))

sendPitchBend(b) ==
    IF ~HasOutput THEN Same
    ELSE LET midiBend == BendValue(b)
         IN  [Same EXCEPT !.out = [i \in 1..Len(StrumChannels) |->
                                     <<PitchBend + StrumChannels[i],
                                       midiBend % 128,
                                       (midiBend \div 128) % 128>>]]

\* a callback that leaves the start time of its key behind
timerCallbackKeepsStart(t) ==
    [Same EXCEPT
     !.pending = timers \ {t},
     !.out = IF midiOut THEN NoteOffs(KeyChannels(t.key), KeyPitch(t.key))
             ELSE <<>>,
     !.ant = MapDelete(activeNoteTimers, t.key),
     !.hist = [k \in DOMAIN hist |->
                 IF k = t.key THEN [hist[k] EXCEPT !.fires = @ + 1]
                 ELSE hist[k]]]

\* the setTimeout callback of timer t, lines 608-620 and 662-673
timerCallback(t) ==
    [Same EXCEPT
     !.pending = timers \ {t},
     !.out = IF midiOut THEN NoteOffs(KeyChannels(t.key), KeyPitch(t.key))
             ELSE <<>>,
     !.ant = MapDelete(activeNoteTimers, t.key),
     !.nst = MapDelete(noteStartTimes, t.key),
     !.hist = [k \in DOMAIN hist |->
                 IF k = t.key THEN [hist[k] EXCEPT !.fires = @ + 1]
                 ELSE hist[k]]]

\* a close() that forgets the timers without clearing them
ClearAllNone(pending, handles) == pending

\* close(), lines 751-765
RECURSIVE ClearAll(_, _)
ClearAll(pending, handles) ==
    IF handles = {} THEN pending
    ELSE LET h == CHOOSE x \in handles : TRUE
         IN  ClearAll(ClearTimeout(pending, h), handles \ {h})

MapValues(m) == {m[k] : k \in DOMAIN m}

close ==
    [Same EXCEPT
     !.pending = ClearAll(timers, MapValues(activeNoteTimers)),
     !.ant = EmptyMap,
     !.nst = EmptyMap,
     !.dead = dead \cup MapValues(activeNoteTimers),
     !.hist = [k \in DOMAIN hist |->
                 IF k \in DOMAIN activeNoteTimers
                 THEN [hist[k] EXCEPT !.cancelled = "close"] ELSE hist[k]],
     !.quiet = TRUE]

(***************************************************************************)
(* The Midi actions.                                                       *)
(***************************************************************************)
MidiInit(strumChannels) ==
    /\ midiOut = FALSE
    /\ midiStrumChannel \in strumChannels
    /\ activeNoteTimers = EmptyMap
    /\ noteStartTimes = EmptyMap
    /\ timers = {}
    /\ nextTimerId = 1
    /\ now = 0
    /\ hist = EmptyMap
    /\ dead = {}
    /\ quiet = FALSE
    /\ silent = FALSE
    /\ lastBend = <<>>

\* the reader and the progression as constructed
OthersInit ==
    HidInit({TabletBitFlags}, {PrimaryReportId}) /\ ProgInit /\ EmitterInit /\ AppInit

InitStrum == StrummerInit /\ MidiInit({Null}) /\ OthersInit
InitMidi == StrummerInit /\ MidiInit({Null, 1}) /\ OthersInit

\* the call with effect e has run on the instance; guardHit: it returned
\* at `if (!this.midiOut) return`
MidiApply(e, guardHit) ==
    /\ e.nextId <= MaxTimers + 1
    /\ activeNoteTimers' = e.ant
    /\ noteStartTimes' = e.nst
    /\ timers' = e.pending
    /\ nextTimerId' = e.nextId
    /\ hist' = e.hist
    /\ dead' = e.dead
    /\ quiet' = e.quiet
    /\ silent' = guardHit
    /\ UNCHANGED <<midiOut, midiStrumChannel, now>>

Apply(e, guardHit) ==
    /\ MidiApply(e, guardHit)
    /\ UNCHANGED <<strumVars, hidVars, progVars, emitVars, appVars>>

\* refreshConnection(), lines 408-459: the first output port, when there is
\* one, becomes midiOut; with none, or on failure, midiOut stays as it was
RefreshConnection ==
    \E hasOutputs \in BOOLEAN :
        /\ midiOut' = (midiOut \/ hasOutputs)
        /\ silent' = (silent /\ ~midiOut')
        /\ UNCHANGED <<midiStrumChannel, activeNoteTimers, noteStartTimes,
                       timers, nextTimerId, now, hist, dead, quiet, lastBend>>
        /\ UNCHANGED <<strumVars, hidVars, progVars, emitVars, appVars>>

SendNote ==
    \E note \in MidiNotes \cup {UndefinedNote},
       velocity \in Velocities, duration \in Durations :
        \E e \in {sendNote(note, velocity, duration)} :
            Apply(e, ~HasOutput) /\ UNCHANGED lastBend

SendRawNote ==
    \E midiNote \in RawPitches, velocity \in Velocities,
       channel \in ExplicitChannels, duration \in Durations :
        \E e \in {sendRawNote(midiNote, velocity, channel, duration)} :
            Apply(e, ~HasOutput) /\ UNCHANGED lastBend

ReleaseNotes ==
    \E ns \in ReleaseLists : \E e \in {releaseNotes(ns)} :
            Apply(e, ~HasOutput) /\ UNCHANGED lastBend

SendPitchBend ==
    \E b \in Bends : \E e \in {sendPitchBend(b)} :
            Apply(e, ~HasOutput) /\ lastBend' = e.out

\* a timeout that is due runs
TimerFire ==
    \E t \in timers :
        /\ t.due <= now
        /\ \E e \in {timerCallback(t)} : Apply(e, silent) /\ UNCHANGED lastBend

Close == \E e \in {close} : Apply(e, silent) /\ UNCHANGED lastBend

\* time passes; a timeout that is due runs before the clock moves on
Tick ==
    /\ now < MaxTime
    /\ \A t \in timers : t.due > now
    /\ now' = now + 1
    /\ UNCHANGED <<midiOut, midiStrumChannel, activeNoteTimers, noteStartTimes,
                   timers, nextTimerId, hist, dead, quiet, silent, lastBend>>
    /\ UNCHANGED <<strumVars, hidVars, progVars, emitVars, appVars>>

MidiNext ==
    \/ RefreshConnection
    \/ SendNote
    \/ SendRawNote
    \/ ReleaseNotes
    \/ TimerFire
    \/ Close
    \/ Tick

SpecMidi == InitMidi /\ [][MidiNext]_vars

\* the host runs a timeout that is due, and time passes
SpecMidiLive ==
    InitMidi /\ [][MidiNext]_vars /\ WF_vars(TimerFire) /\ WF_vars(Tick)

BendNext ==
    \/ RefreshConnection
    \/ SendPitchBend

\* pitch bends, on every configuration of the strum channel
InitBend == StrummerInit /\ MidiInit({Null} \cup Channels) /\ OthersInit

SpecBend == InitBend /\ [][BendNext]_vars

\* the decoder, on every mapping table and every report
InitDecode ==
    /\ StrummerInit /\ MidiInit({Null}) /\ ProgInit /\ EmitterInit /\ AppInit
    /\ HidInit({TabletBitFlags, TabletCodeButtons, TabletLegacy},
               {PrimaryReportId})

SpecDecode == InitDecode /\ [][ProcessDeviceData]_vars

\* the reader's life, with and without a configured reportId
InitHid ==
    /\ StrummerInit /\ MidiInit({Null}) /\ ProgInit /\ EmitterInit /\ AppInit
    /\ HidInit({TabletBitFlags}, {PrimaryReportId, Undefined})

SpecHid == InitHid /\ [][HidNext]_vars

\* the progression and the two actions that move it
SpecProg == InitStrum /\ [][ProgNext]_vars

\* the set-strum-chord action
SpecChord == InitStrum /\ [][SetStrumChord]_vars

\* the load of the progressions file and its callers
SpecLoad == InitStrum /\ [][LoadNext]_vars

\* the tablet controller as devices come and go
SpecController == InitStrum /\ [][ControllerNext]_vars

\* the WebSocket connection of the app
SpecSocket == InitStrum /\ [][SocketNext]_vars

\* midiCallback(event), lines 486-508: the handler called, onNoteDown or
\* onNoteUp, with the notation and octave decoded from the pitch number
midiCallback(message) ==
    IF Len(message) < 3 THEN [handler |-> "none", note |-> UndefinedNote]
    ELSE LET command == message[1]
             note == message[2]
             velocity == message[3]
             notationList == sharpNotations \o sharpNotations
             notation == notationList[(note % Len(sharpNotations)) + 1]
             octave == (note \div Len(sharpNotations)) - 1
             noteObj == [notation |-> notation, octave |-> octave]
         IN  IF command = NoteOn
             THEN [handler |-> IF velocity > 0 THEN "onNoteDown" ELSE "onNoteUp",
                   note |-> noteObj]
             ELSE IF command = NoteOff
             THEN [handler |-> "onNoteUp", note |-> noteObj]
             ELSE [handler |-> "none", note |-> UndefinedNote]

\* the messages of an input port: note-on, note-off and pitch bend on the
\* first channel, every pitch number, and a message cut short
MidiMessages ==
    {<<command, note, velocity>> :
        command \in {NoteOn, NoteOff, PitchBend}, note \in 0..MaxPitch,
        velocity \in {0, MaxVelocity}}
    \cup {<<NoteOn, 60>>}

\* a message arrives at the input port
MidiCallback ==
    \E message \in MidiMessages :
        /\ progReturn' = [call |-> "midiCallback", arg |-> message,
                          ret |-> midiCallback(message)]
        /\ UNCHANGED <<progressions, progressionName, chords, currentIndex>>
        /\ UNCHANGED <<strumVars, midiVars, hidVars, emitVars, appVars>>

InputNext ==
    \/ RefreshConnection
    \/ MidiCallback

\* MIDI input decoded, with an output to send the notes back through
SpecInput == InitStrum /\ [][InputNext]_vars

\* the helpers the application calls between strum and note: transpose
\* and effect values
HelpersNext ==
    \/ TransposeNote
    \/ CalculateEffectValue

SpecHelpers == InitStrum /\ [][HelpersNext]_vars

\* the emitter and its callbacks
SpecEmit == InitStrum /\ [][EmitNext]_vars

(***************************************************************************)
(* The direct app (components/direct-app) behind the tablet controller:    *)
(* a decoded frame becomes a 'data' event, and processTabletData feeds it  *)
(* to the strummer and sends what the strummer returns.  The note          *)
(* repeater and transpose are off, as configured by default, and the       *)
(* pitch bend effect is flat.                                              *)
(***************************************************************************)
\* strumming.initialNotes, C4 E4 G4, with no note spread
InitialNotes ==
    [k \in 1..3 |->
        [notation |-> <<<<"C">>, <<"E">>, <<"G">>>>[k], octave |-> 4,
         secondary |-> FALSE]]

\* the app configures the strummer and loads the initial notes,
\* direct-app.ts lines 459-474
LoadConfig ==
    /\ NotesEmpty(notes)
    /\ \E e \in {[configure(1) EXCEPT !.notes = InitialNotes]} : ApplyFields(e)
    /\ justCleared' = FALSE
    /\ UNCHANGED <<epi, tapIdx, lastEmittedVel>>
    /\ UNCHANGED <<midiVars, hidVars, progVars, emitVars, appVars>>

\* config.strumRelease: the default, and the feature switched on with a
\* note of its own, and with none; maxDuration in ticks
StrumReleaseConfigs ==
    {[active |-> FALSE, midiNote |-> 38, midiChannel |-> Null, maxDuration |-> 1],
     [active |-> TRUE, midiNote |-> 40, midiChannel |-> Null, maxDuration |-> 1],
     [active |-> TRUE, midiNote |-> Undefined, midiChannel |-> Null,
      maxDuration |-> 1]}

\* lines 584-590: the notes of a strum, sendNote by sendNote; a note that
\* is undefined (its index lies outside the list) ends the handler
RECURSIVE SendNotesOn(_, _, _)
SendNotesOn(st, entries, duration) ==
    IF entries = <<>> THEN st
    ELSE LET noteData == Head(entries) IN
         IF noteData.velocity = NaN \/ noteData.velocity <= 0 \/ ~HasOutput
         THEN SendNotesOn(st, Tail(entries), duration)
         ELSE IF noteData.idx \notin 0..(Len(notes) - 1)
         THEN [st EXCEPT !.threw = TRUE]
         ELSE SendNotesOn(ScheduleOn(st, NoteToMIDI(noteData.note),
                                     noteData.velocity, StrumChannels, duration),
                          Tail(entries), duration)

\* lines 576-628: what processTabletData sends for the strum result
HandleStrumResult(strumResult, cfg, duration) ==
    IF strumResult.type = "strum"
    THEN SendNotesOn(Same, strumResult.notes, duration)
    ELSE IF /\ strumResult.type = "release"
            /\ cfg.midiNote # Undefined
            /\ duration <= cfg.maxDuration
    THEN sendRawNote(cfg.midiNote,
                     Max(1, Min(MaxVelocity, strumResult.velocity)),
                     cfg.midiChannel, duration)
    ELSE Same

\* processTabletData(data), lines 534-657
ProcessTabletData(x, p) ==
    \E e \in {HandleStrumResult(StrumStep(x, p).ret, cfg, duration) :
                cfg \in StrumReleaseConfigs, duration \in Durations} :
            /\ StrumSample(x, p)
            /\ MidiApply(e, ~HasOutput)
            /\ lastBend' = sendPitchBend(0).out
            /\ UNCHANGED <<progVars, emitVars, loadVars, ctlVars, wsVars>>

\* the 'data' event of a frame with fields x and pressure
TabletData ==
    \E x \in {q \in Positions : q >= 0}, p \in {0, 5, PScale} :
        /\ ProcessTabletData(x, p)
        /\ UNCHANGED <<hidVars, btnVars>>

\* a pen profile: status, then x and pressure in one byte each
TabletPen ==
    << StatusMapping,
       [Mapping("x", "range", 1) EXCEPT !.max = 240],
       [Mapping("pressure", "range", 2) EXCEPT !.max = 240] >>

\* the reader hands a decoded report to handleHIDData (part_002 lines
\* 428-488): Number(result.x ?? 0), Number(result.pressure ?? 0), the
\* tablet buttons of the frame, then the 'data' event.  The reports drawn
\* put x and pressure on the grid.
HandleReports(reports) ==
    \E data \in reports :
        \E frame \in {processDeviceData(data)} :
            LET x == IF "x" \in DOMAIN frame THEN frame["x"] ELSE Zero
                pressure == IF "pressure" \in DOMAIN frame
                            THEN frame["pressure"] ELSE Zero
            IN  /\ (x.n * XScale) % x.d = 0
                /\ (pressure.n * PScale) % pressure.d = 0
                /\ Decode(data)
                /\ ButtonsApply(mainInterfaceButtons(Buttons, frame, 1))
                /\ ProcessTabletData((x.n * XScale) \div x.d,
                                     (pressure.n * PScale) \div pressure.d)
                /\ UNCHANGED <<hidConfig, isRunning, handlers, opening, opened,
                               received, callbacks>>

\* a report of any length up to MaxReportLen
HandleHIDData ==
    HandleReports(UNION {ReportsOfLength(n) : n \in 0..MaxReportLen})

TabletNext ==
    \/ LoadConfig
    \/ HandleHIDData

InitTablet ==
    /\ StrummerInit /\ MidiInit({Null}) /\ ProgInit /\ EmitterInit /\ AppInit
    /\ HidInit({TabletPen}, {PrimaryReportId})

\* frames from the reader to the strummer, no MIDI output connected
SpecTablet == InitTablet /\ [][TabletNext]_vars

\* pen profiles with tablet buttons: as bit flags in the byte after the
\* status, as codes on the button interface, and on keys
TabletPenBitFlags ==
    TabletPen \o <<Mapping("tabletButtons", "bit-flags", 1)>>
TabletPenCodes ==
    TabletPen \o
    <<[Mapping("tabletButtons", "code", 1) EXCEPT
          !.values = (ButtonInterfaceReportId :> ("button" :> Num(1, 1)))
                     @@ (StatusCodes.hover :> ("button" :> Num(2, 1))),
          !.valuesIsArray = FALSE,
          !.buttonCount = 2]>>
TabletPenKeys ==
    TabletPen \o <<Mapping("tabletButtons", "keyboard-events", 0)>>

\* a report of a pen with buttons, or of its button interface: the status
\* or report id, then two bytes
ButtonReports == {r \in ReportsOfLength(3) : r[1] # 0}

\* handleHIDData on a report of a pen with buttons
HandleButtonReport == HandleReports(ButtonReports)

ButtonsNext ==
    \/ HandleButtonReport
    \/ SecondaryReport
    \/ KeyDown
    \/ KeyUp

InitButtons ==
    /\ StrummerInit /\ MidiInit({Null}) /\ ProgInit /\ EmitterInit /\ AppInit
    /\ HidInit({TabletPenBitFlags, TabletPenCodes, TabletPenKeys},
               {PrimaryReportId})

\* the tablet buttons, reported by frames, secondary reports and keys
SpecButtons == InitButtons /\ [][ButtonsNext]_vars

AppNext ==
    \/ RefreshConnection
    \/ LoadConfig
    \/ TabletData
    \/ TimerFire
    \/ Tick

\* the app with its MIDI output: samples, notes and their timers
SpecApp == InitStrum /\ [][AppNext]_vars

(***************************************************************************)
(* The scheduler: pending timers per key, timers due, note-off messages.   *)
(***************************************************************************)
PendingFor(pending, key) == {t \in pending : t.key = key}
\* the timers whose callback the host can run now
Due == {t \in timers : t.due <= now}
IsNoteOff(msg) == msg[1] \in NoteOff..(NoteOff + NumChannels - 1)
NoNoteOff(out) == \A i \in 1..Len(out) : ~IsNoteOff(out[i])

(***************************************************************************)
(* C4.  Retrigger: when a note-on for a key replaces the pending timer of  *)
(* an earlier note-on for the same key, no timer-driven note-off for the   *)
(* key is transmitted at the earlier deadline t0 + d; the one timer-driven *)
(* note-off per channel is transmitted at t1 + d', the deadline of the     *)
(* later note-on, and it is transmitted once.                              *)
(***************************************************************************)
C4_Fires ==
    \A t \in Due :
        hist[t.key].retrig =>
            /\ now = hist[t.key].due
            /\ hist[t.key].fires = 0
            /\ timerCallback(t).out =
                   [i \in 1..Len(KeyChannels(t.key)) |->
                      <<NoteOff + KeyChannels(t.key)[i], KeyPitch(t.key),
                        ReleaseVelocity>>]

\* once the later deadline is past, its note-off has been transmitted
C4_Delivered ==
    \A k \in DOMAIN hist :
        (hist[k].retrig /\ hist[k].cancelled = "no") =>
            /\ hist[k].fires <= 1
            /\ now > hist[k].due => hist[k].fires = 1

C4_Retrigger == C4_Fires /\ C4_Delivered

\* the timer of a retriggered key has fired, after the earlier deadline
C4_Witness ==
    \E k \in DOMAIN hist :
        /\ hist[k].retrig
        /\ hist[k].fires = 1
        /\ hist[k].due > 1

(***************************************************************************)
(* C5.  Each key has at most one pending auto-release timer, and a timer   *)
(* that was replaced or cancelled never fires; no key's timer fires twice  *)
(* for one note-on.                                                        *)
(***************************************************************************)
C5_OnePerKey ==
    /\ \A t \in timers : Cardinality(PendingFor(timers, t.key)) <= 1
    /\ \A t \in timers : t.key \in DOMAIN activeNoteTimers
                         /\ activeNoteTimers[t.key] = t.id

C5_OneTimer ==
    /\ C5_OnePerKey
    /\ \A t \in timers : t.id \notin dead /\ hist[t.key].fires = 0
    /\ \A k \in DOMAIN hist : hist[k].fires <= 1

\* a timer has fired for a key while a replaced or cancelled timer's
\* deadline has passed
C5_Witness ==
    /\ dead # {}
    /\ \E k \in DOMAIN hist : hist[k].fires = 1
    /\ now = MaxTime

(***************************************************************************)
(* C6.  releaseNotes(notes), for each note: the pending timer of the       *)
(* note's key is cancelled, the key leaves activeNoteTimers and            *)
(* noteStartTimes, and one note-off goes to every channel of the resolved  *)
(* channel set; the cancelled timer never fires afterwards.                *)
(***************************************************************************)
C6_Channels ==
    IF midiStrumChannel # Null THEN <<midiStrumChannel - 1>>
    ELSE [i \in 1..NumChannels |-> i - 1]

C6_Effect(ns) ==
    \E e \in {releaseNotes(ns)} :
    \E pitch \in {[i \in 1..Len(ns) |-> NoteToMIDI(ns[i])]} :
        LET chs == C6_Channels
            n == Len(chs)
            keys == {NoteKey(pitch[i], chs) : i \in 1..Len(ns)}
        IN  /\ Len(e.out) = Len(ns) * n
            /\ \A i \in 1..Len(ns) : \A j \in 1..n :
                 e.out[(i - 1) * n + j] =
                     <<NoteOff + chs[j], pitch[i], ReleaseVelocity>>
            /\ \A k \in keys :
                 /\ k \notin DOMAIN e.ant
                 /\ k \notin DOMAIN e.nst
                 /\ PendingFor(e.pending, k) = {}
                 /\ \A t \in PendingFor(timers, k) : t.id \in e.dead
            /\ e.pending = {t \in timers : t.key \notin keys}

C6_Release ==
    /\ midiOut => \A ns \in ReleaseLists : Len(ns) > 0 => C6_Effect(ns)
    /\ \A t \in timers : t.id \notin dead
    /\ \A k \in DOMAIN hist : hist[k].cancelled = "release" => hist[k].fires = 0

\* releaseNotes cancelled the pending timer of a note that was sounding,
\* and the timer's deadline has passed
C6_Witness ==
    \E k \in DOMAIN hist :
        /\ hist[k].cancelled = "release"
        /\ hist[k].fires = 0
        /\ now > hist[k].due

(***************************************************************************)
(* C7.  close() cancels every pending timer and empties activeNoteTimers   *)
(* and noteStartTimes; after it no note-off is transmitted until a new     *)
(* send is issued.                                                         *)
(***************************************************************************)
C7_CloseEffect ==
    \E e \in {close} :
        /\ e.pending = {}
        /\ e.ant = EmptyMap
        /\ e.nst = EmptyMap
        /\ e.out = <<>>

\* after close() and before the next send: no timer is left to run, and
\* a pitch bend puts no note-off on the wire
C7_Quiet ==
    quiet =>
        /\ timers = {}
        /\ \A b \in Bends : NoNoteOff(sendPitchBend(b).out)
        /\ \A k \in DOMAIN hist : hist[k].cancelled = "close" => hist[k].fires = 0

C7_Close == C7_CloseEffect /\ C7_Quiet

\* the deadline of a timer that close() cancelled has passed in silence
C7_Witness ==
    /\ quiet
    /\ \E k \in DOMAIN hist : hist[k].cancelled = "close" /\ now > hist[k].due

(***************************************************************************)
(* C8.  With no output port, sendNote, sendRawNote, releaseNotes and       *)
(* sendPitchBend transmit nothing, schedule no timer, leave the timer      *)
(* bookkeeping unchanged and raise no error.                               *)
(***************************************************************************)
C8_Untouched(e) ==
    /\ e.out = <<>>
    /\ ~e.threw
    /\ e.pending = timers
    /\ e.nextId = nextTimerId
    /\ e.ant = activeNoteTimers
    /\ e.nst = noteStartTimes

C8_NoOutput ==
    ~midiOut =>
        /\ \A note \in MidiNotes \cup {UndefinedNote},
              velocity \in Velocities, duration \in Durations :
                C8_Untouched(sendNote(note, velocity, duration))
        /\ \A midiNote \in RawPitches, velocity \in Velocities,
              channel \in {Null} \cup Channels, duration \in Durations :
                C8_Untouched(sendRawNote(midiNote, velocity, channel, duration))
        /\ \A ns \in ReleaseLists : C8_Untouched(releaseNotes(ns))
        /\ \A b \in Bends : C8_Untouched(sendPitchBend(b))

\* a send, release or bend has been called with no output port held
C8_Witness ==
    /\ ~midiOut
    /\ silent
    /\ timers = {}
    /\ nextTimerId = 1

(***************************************************************************)
(* C9.  sendRawNote sends on the explicit channel when it is not null,     *)
(* else on the configured strum channel when there is one, else on all 16  *)
(* channels; a configured channel c goes out as wire channel c - 1:        *)
(* note-on [0x90 + (c-1), pitch, velocity], note-off                       *)
(* [0x80 + (c-1), pitch, 0x40].                                            *)
(***************************************************************************)
C9_Configured(channel) ==
    IF channel # Null THEN <<channel>>
    ELSE IF midiStrumChannel # Null THEN <<midiStrumChannel>>
    ELSE [i \in 1..16 |-> i]

C9_NoteOffs(key) ==
    [i \in 1..Len(KeyChannels(key)) |->
        <<128 + KeyChannels(key)[i], KeyPitch(key), 64>>]

\* the channels sendRawNote resolves, for every explicit channel
C9_Resolved ==
    \A channel \in {Null} \cup Channels :
        \E cs \in {C9_Configured(channel)} :
            RawChannels(channel) = [i \in 1..Len(cs) |-> cs[i] - 1]

\* the messages of the call and of its timer go to the resolved channels
C9_RawEffect(pitch, velocity, channel, duration) ==
    \E e \in {sendRawNote(pitch, velocity, channel, duration)} :
    \E cs \in {C9_Configured(channel)} :
        /\ e.out = [i \in 1..Len(cs) |-> <<144 + (cs[i] - 1), pitch, velocity>>]
        /\ \E t \in e.pending :
             /\ t.id = nextTimerId
             /\ t.key = NoteKey(pitch, [i \in 1..Len(cs) |-> cs[i] - 1])
             /\ t.due = now + duration
             /\ timerCallback(t).out = C9_NoteOffs(t.key)

C9_RawChannels ==
    midiOut =>
        /\ C9_Resolved
        /\ \A pitch \in RawPitches, velocity \in Velocities,
              channel \in ExplicitChannels, duration \in Durations :
                C9_RawEffect(pitch, velocity, channel, duration)
        /\ \A t \in timers : timerCallback(t).out = C9_NoteOffs(t.key)

\* a raw note sent on an explicit channel, over a different configured
\* strum channel, has been released by its timer
C9_Witness ==
    /\ midiStrumChannel # Null
    /\ \E k \in DOMAIN hist :
         /\ Len(KeyChannels(k)) = 1
         /\ KeyChannels(k)[1] # midiStrumChannel - 1
         /\ hist[k].fires = 1

StrumNext == Strum \/ ClearStrum \/ Configure \/ SetNotes \/ UpdateBounds

SpecStrum == InitStrum /\ [][StrumNext]_vars

(***************************************************************************)
(* The strum engine's conceptual states, read off the fields, and the      *)
(* samples the properties range over: every position and pressure level.   *)
(***************************************************************************)
NumStrings == Len(notes)
IsString(i) == i \in 0..(NumStrings - 1)
AllPressures == 0..PScale

\* a strum is committed on a string and pressure is still at or above
\* the threshold; no tap is being buffered
Held ==
    /\ IsString(lastStrummedIndex)
    /\ pendingTapIndex = NoIndex
    /\ lastPressure >= pressureThreshold

\* the tap buffer reaches its capacity with the sample being processed
ReachesCapacity == Len(pressureBuffer) + 1 >= bufferMaxSamples

(***************************************************************************)
(* C1.  From Idle (fresh, after a release or after clearStrum) and with    *)
(* the threshold left alone: the first sample at or above the threshold    *)
(* returns no event; while pressure stays at or above the threshold, a     *)
(* sample returns a strum exactly when it brings the tap buffer to its     *)
(* capacity, that strum carries one note and it is the note of the string  *)
(* index of the tap's first qualifying sample; once it is out, a sample    *)
(* on the committed string returns nothing more.                           *)
(***************************************************************************)
C1_TapBuffering ==
    \A x \in Positions, p \in AllPressures :
        (~NotesEmpty(notes) /\ p >= pressureThreshold) =>
            \E r \in {StrumStep(x, p)} :
                /\ epi = "idle" => r.ret = NoEvent
                /\ epi = "tap" =>
                      IF ReachesCapacity
                      THEN /\ r.ret.type = "strum"
                           /\ Len(r.ret.notes) = 1
                           /\ r.ret.notes[1].idx = tapIdx
                      ELSE r.ret = NoEvent
                /\ (epi = "held"
                    /\ StringIndex(x, width, NumStrings) = lastStrummedIndex) =>
                      r.ret = NoEvent

(***************************************************************************)
(* C2.  Held on string i, a sample at or above the threshold that lands on *)
(* string j # i returns one strum whose notes are the strings after i up   *)
(* to and including j, each once, ascending when j > i and descending when *)
(* j < i, and j becomes the committed string.  The string a sample lands   *)
(* on is floor(x / (width/N)) clamped into 0..N-1.                         *)
(***************************************************************************)
C2_Expected(i, j) ==
    [k \in 1..(IF j > i THEN j - i ELSE i - j) |->
        IF j > i THEN i + k ELSE i - k]

C2_String(x) ==
    Max(0, Min((x * NumStrings) \div width, NumStrings - 1))

C2_Sample(x, p) ==
    LET i == lastStrummedIndex
        j == C2_String(x)
    IN  (/\ ~NotesEmpty(notes)
         /\ Held
         /\ p >= pressureThreshold
         /\ j # i) =>
            \E r \in {StrumStep(x, p)} : \E want \in {C2_Expected(i, j)} :
                /\ r.ret.type = "strum"
                /\ Len(r.ret.notes) = Len(want)
                /\ \A k \in 1..Len(want) :
                      /\ r.ret.notes[k].idx = want[k]
                      /\ r.ret.notes[k].note = notes[want[k] + 1]
                /\ r.lsi = j

C2_Crossing == \A x \in Positions, p \in AllPressures : C2_Sample(x, p)

\* the same for the samples at or right of the surface's left edge
C2_CrossingOnSurface ==
    \A x \in Positions, p \in AllPressures : x >= 0 => C2_Sample(x, p)

\* a crossing has returned strings 1 and 2, in that order, and string 2 is
\* the committed one
C2_Witness ==
    /\ result.type = "strum"
    /\ Len(result.notes) = 2
    /\ result.notes[1].idx = 1
    /\ result.notes[2].idx = 2
    /\ lastStrummedIndex = 2

(***************************************************************************)
(* C3.  A sample that takes pressure from at or above the threshold to     *)
(* below it returns a release exactly when a strum was emitted since the   *)
(* last release or clearStrum, with the velocity of the most recent strum; *)
(* afterwards lastStrummedIndex = -1, pendingTapIndex = -1, the tap buffer *)
(* is empty and lastStrumVelocity = 0.                                     *)
(***************************************************************************)
C3_Release ==
    \A x \in Positions, p \in AllPressures :
        (/\ ~NotesEmpty(notes)
         /\ lastPressure >= pressureThreshold
         /\ p < pressureThreshold) =>
            \E r \in {StrumStep(x, p)} :
                /\ (r.ret.type = "release") <=> (lastEmittedVel # 0)
                /\ r.ret.type = "release" => r.ret.velocity = lastEmittedVel
                /\ r.ret.type \in {"release", "none"}
                /\ r.lsi = NoIndex
                /\ r.pti = NoIndex
                /\ r.buf = <<>>
                /\ r.vel = 0

(***************************************************************************)
(* C10.  With an empty note list strum returns no event for every          *)
(* (x, pressure) and leaves lastPressure, lastStrummedIndex,               *)
(* pendingTapIndex, the tap buffer and lastStrumVelocity unchanged.        *)
(***************************************************************************)
C10_EmptyNotes ==
    \A x \in Positions, p \in AllPressures :
        Len(notes) = 0 =>
            \E r \in {StrumStep(x, p)} :
                /\ r.ret = NoEvent
                /\ r.lp = lastPressure
                /\ r.lsi = lastStrummedIndex
                /\ r.pti = pendingTapIndex
                /\ r.buf = pressureBuffer
                /\ r.vel = lastStrumVelocity

\* strum has just been called on an emptied list while a strum was held:
\* the held state is still there
C10_Witness ==
    /\ ignored
    /\ Len(notes) = 0
    /\ lastStrummedIndex # NoIndex
    /\ lastPressure >= pressureThreshold
    /\ lastStrumVelocity # 0

(***************************************************************************)
(* C11.  For every position x, below 0 and at or beyond the width          *)
(* included, and every non-empty note list of length N, the string index   *)
(* strum computes for the sample is floor(x / (width/N)) clamped into      *)
(* 0..N-1; a sample that starts a tap stores that index as the pending     *)
(* tap's string.                                                           *)
(***************************************************************************)
C11_Floor(x) == (x * NumStrings) \div width

C11_Clamped(x) ==
    IF C11_Floor(x) < 0 THEN 0
    ELSE IF C11_Floor(x) > NumStrings - 1 THEN NumStrings - 1
    ELSE C11_Floor(x)

C11_IndexClamped ==
    \A x \in Positions, p \in AllPressures :
        ~NotesEmpty(notes) =>
            /\ StringIndex(x, width, NumStrings) = C11_Clamped(x)
            /\ \E r \in {StrumStep(x, p)} :
                 r.branch \in {"down", "first"} => r.pti = C11_Clamped(x)

\* the same for the samples at or right of the surface's left edge
C11_IndexClampedOnSurface ==
    \A x \in Positions, p \in AllPressures :
        (~NotesEmpty(notes) /\ x >= 0) =>
            /\ StringIndex(x, width, NumStrings) = C11_Clamped(x)
            /\ \E r \in {StrumStep(x, p)} :
                 r.branch \in {"down", "first"} => r.pti = C11_Clamped(x)

(***************************************************************************)
(* C12.  Every velocity carried by a returned strum is an integer in       *)
(* 20..127, for pressures in [0,1]: a buffered tap carries                 *)
(* floor(20 + 107 * clamp((p - threshold) / (1 - threshold), 0, 1)), which *)
(* is 20 at p = threshold and 127 at p = 1, and a crossing carries         *)
(* max(20, floor(127 * p)).                                                *)
(***************************************************************************)
\* floor(20 + 107 * clamp(num / den, 0, 1)) for den > 0
C12_Tap(p, th) ==
    IF p - th <= 0 THEN 20
    ELSE IF p - th >= PScale - th THEN 127
    ELSE 20 + (107 * (p - th)) \div (PScale - th)

C12_Cross(p) ==
    IF (127 * p) \div PScale < 20 THEN 20 ELSE (127 * p) \div PScale

C12_Sample(x, p) ==
    \E r \in {StrumStep(x, p)} :
        r.ret.type = "strum" =>
            /\ \A k \in 1..Len(r.ret.notes) : r.ret.notes[k].velocity \in 20..127
            /\ (r.branch = "tap" /\ pressureThreshold < PScale) =>
                  r.ret.notes[1].velocity = C12_Tap(p, pressureThreshold)
            /\ r.branch = "cross" =>
                  \A k \in 1..Len(r.ret.notes) :
                      r.ret.notes[k].velocity = C12_Cross(p)

C12_Velocities == \A x \in Positions, p \in AllPressures : C12_Sample(x, p)

\* the same with the threshold below 1.0
C12_VelocitiesBelowOne ==
    \A x \in Positions, p \in AllPressures :
        pressureThreshold < PScale => C12_Sample(x, p)


\* ---------------------------------------------------------------------
\* C13  Strummer.clearStrum() emits no event and puts lastStrummedIndex,
\*      lastPressure, lastStrumVelocity, pendingTapIndex and the pressure
\*      buffer back to their initial values (-1, 0, 0, -1, empty), leaving
\*      the notes, the bounds and the threshold alone.  In the state it
\*      leaves, a sample below the threshold returns no release, and a
\*      sample at or above the threshold starts a new buffered tap: it
\*      returns no event, opens the buffer with its pressure and records
\*      the index computed for it.
C13_ClearEffect ==
    \E e \in {clearStrum} :
        /\ e.emits = <<>>
        /\ e.lsi = 0 - 1
        /\ e.lp = 0
        /\ e.vel = 0
        /\ e.pti = 0 - 1
        /\ e.buf = <<>>
        /\ e.notes = notes
        /\ e.width = width
        /\ e.th = pressureThreshold

C13_NextSample(x, p) ==
    \E r \in {StrumStep(x, p)} :
        /\ r.ret.type # "release"
        /\ p < pressureThreshold => r.ret = NoEvent /\ r.buf = <<>>
        /\ p >= pressureThreshold =>
            /\ r.branch \in {"down", "first"}
            /\ r.ret = NoEvent
            /\ r.buf \in {<<p>>, <<0, p>>}
            /\ r.lsi = NoIndex
            /\ r.pti = StringIndex(x, width, NumStrings)

C13_ClearStrum ==
    /\ C13_ClearEffect
    /\ justCleared =>
        /\ Fields = clearStrum
        /\ ~NotesEmpty(notes) =>
            \A x \in Positions, p \in AllPressures : C13_NextSample(x, p)

C13_Witness ==
    /\ justCleared
    /\ ~NotesEmpty(notes)
    /\ pressureThreshold > 0
    /\ result = NoEvent

\* ---------------------------------------------------------------------
\* C14  Strummer.configure(_, pressureThreshold) sets pressureThreshold
\*      and nothing else: in every state, idle, buffering or held,
\*      lastStrummedIndex, pendingTapIndex, the pressure buffer,
\*      lastPressure, lastStrumVelocity, the notes and the bounds are the
\*      same after the call as before it, and no event is emitted.
C14_Configure ==
    \A th \in AllPressures :
        \E e \in {configure(th)} :
            /\ e.th = th
            /\ e.lsi = lastStrummedIndex
            /\ e.pti = pendingTapIndex
            /\ e.buf = pressureBuffer
            /\ e.lp = lastPressure
            /\ e.vel = lastStrumVelocity
            /\ e.notes = notes
            /\ e.width = width
            /\ e.emits = <<>>

\* configure() has changed the threshold of a strummer that holds a string
C14_Witness ==
    /\ epi = "void"
    /\ lastStrummedIndex # NoIndex
    /\ lastStrumVelocity > 0
    /\ result = NoEvent
    /\ ~ignored


\* ---------------------------------------------------------------------
\* C15  Midi.sendPitchBend(b): b is clamped to [-1, 1] and converted to a
\*      14-bit value v in 0..16383, with v = 8192 at b = 0, v = 0 at
\*      b = -1 and v = 16383 at b = 1.  With an output, the call sends one
\*      message [0xE0 + ch, v mod 128, v div 128] to each channel of the
\*      resolved set (the strum channel, or all sixteen), so both data
\*      bytes are in 0..127 and msb * 128 + lsb = v.
C15_Clamp(b) == IF b < 0 - BendScale THEN 0 - BendScale ELSE IF b > BendScale THEN BendScale ELSE b
C15_Resolved == IF midiStrumChannel = Null THEN 0..15 ELSE {midiStrumChannel - 1}

C15_Value(b, v) ==
    /\ v \in 0..16383
    /\ v = BendValue(C15_Clamp(b))
    /\ b = 0 => v = 8192
    /\ b <= 0 - BendScale => v = 0
    /\ b >= BendScale => v = 16383

C15_Message(msg, v) ==
    /\ Len(msg) = 3
    /\ msg[1] - 224 \in C15_Resolved
    /\ msg[2] = v % 128
    /\ msg[3] = v \div 128
    /\ msg[2] \in 0..127
    /\ msg[3] \in 0..127
    /\ msg[3] * 128 + msg[2] = v

C15_Out(out, v) ==
    /\ Len(out) = Cardinality(C15_Resolved)
    /\ {out[i][1] - 224 : i \in 1..Len(out)} = C15_Resolved
    /\ \A i \in 1..Len(out) : C15_Message(out[i], v)

C15_PitchBend ==
    /\ \A b \in Bends :
        \E v \in {BendValue(b)} :
            /\ C15_Value(b, v)
            /\ HasOutput => C15_Out(sendPitchBend(b).out, v)
    /\ lastBend # <<>> => \E b \in Bends : C15_Out(lastBend, BendValue(b))

\* a bend that is neither the centre nor an end has been sent on all
\* sixteen channels, with both data bytes in use
C15_Witness ==
    /\ Len(lastBend) = 16
    /\ lastBend[1][2] # 0
    /\ lastBend[1][3] # 0


(***************************************************************************)
(* The decoder: what a frame holds for the report it was decoded from.     *)
(***************************************************************************)
\* the device state the frame carries
FrameState == IF "state" \in DOMAIN lastFrame THEN lastFrame["state"].s ELSE NoState
\* the report came from the button-only interface
FromButtonInterface == Len(lastReport) > 0 /\ lastReport[1] = 6
ButtonKeysOf(m) == {ButtonKey(i) : i \in 1..m.buttonCount}
AllButtonKeys == {ButtonKey(i) : i \in 1..Len(ButtonKeys)}
\* the byte indices a mapping declares
IndicesOf(m) ==
    IF m.type = "multi-byte-range"
    THEN {m.byteIndex[i] : i \in 1..Len(m.byteIndex)}
    ELSE {m.byteIndex}
FieldTypes == {"range", "bipolar-range", "bit-flags", "multi-byte-range"}
\* the keys a mapping decodes into
KeysOf(m) == IF m.type = "bit-flags" THEN ButtonKeysOf(m) ELSE {m.key}
\* the mode of the frame keeps the field out of it
ModeSkips(m) ==
    \/ m.key \in PositionKeys /\ (FromButtonInterface \/ FrameState = "buttons")
    \/ m.type = "bit-flags" /\ ~(FromButtonInterface \/ FrameState = "buttons")

\* ---------------------------------------------------------------------
\* C16  HIDReader.processDeviceData: a mapping of type range,
\*      bipolar-range, bit-flags or multi-byte-range one of whose byte
\*      indices is at or beyond the length of the report puts no key into
\*      the frame (the key is absent, not present with 0), while a
\*      mapping whose indices all lie inside the report is decoded:
\*      unless the mode of the frame skips it, its key is present, a
\*      range with the fraction (byte - min) / (max - min), a bit-flag
\*      button with the bit of its byte.
C16_Field(m) ==
    /\ (\E i \in IndicesOf(m) : i >= Len(lastReport)) =>
            KeysOf(m) \cap DOMAIN lastFrame = {}
    /\ ((\A i \in IndicesOf(m) : i < Len(lastReport)) /\ ~ModeSkips(m)) =>
            /\ KeysOf(m) \subseteq DOMAIN lastFrame
            /\ m.type # "bit-flags" => lastFrame[m.key].kind = "number"
            /\ (m.type = "range" /\ m.max # m.min) =>
                    lastFrame[m.key] =
                        Num(lastReport[m.byteIndex + 1] - m.min, m.max - m.min)
            /\ m.type = "bit-flags" =>
                    \A i \in 1..m.buttonCount :
                        lastFrame[ButtonKey(i)] =
                            Bool((lastReport[m.byteIndex + 1] \div (2 ^ (i - 1))) % 2 = 1)

C17_Status == hidConfig.mappings[1]
\* the table looks the status up in an object of composite entries
C17_Composite == C17_Status.type = "code" /\ ~C17_Status.valuesIsArray
C17_HasEntry ==
    /\ C17_Status.byteIndex < Len(lastReport)
    /\ lastReport[C17_Status.byteIndex + 1] \in DOMAIN C17_Status.values
C17_Entry == C17_Status.values[lastReport[C17_Status.byteIndex + 1]]
C17_State ==
    IF C17_HasEntry /\ "state" \in DOMAIN C17_Entry
    THEN C17_Entry["state"].s ELSE "none given"
\* every key a status entry can bring, and the status key itself
C17_StatusKeys ==
    {C17_Status.key} \cup
    UNION {DOMAIN C17_Status.values[c] : c \in DOMAIN C17_Status.values}

C18_Matches(n) ==
    /\ received[n].running
    /\ hidConfig.reportId = Undefined \/ received[n].reportId = hidConfig.reportId
\* the arrival numbers of the reports the callback is due, in order
C18_Due == SelectSeq([n \in 1..Len(received) |-> n], C18_Matches)

C18_Callbacks == callbacks = C18_Due

\* what holds of every run: no callback for a report that does not match
\* or that came while stopped, callbacks in arrival order, and as many
\* callbacks per matching report as startReading() has attached listeners
C18_Filtered ==
    /\ \A i \in 1..Len(callbacks) : C18_Matches(callbacks[i])
    /\ \A i, j \in 1..Len(callbacks) : i <= j => callbacks[i] <= callbacks[j]
    /\ handlers <= 1 => callbacks = C18_Due

\* a reader started twice has handed one report to the callback twice
C18_Witness ==
    /\ handlers = 2
    /\ Len(received) = 1
    /\ callbacks = <<1, 1>>
    /\ decoded


(***************************************************************************)
(* C19  ChordProgressionState keeps its index in range.  After any         *)
(* sequence of loadProgression, setIndex, incrementIndex and reset (and of *)
(* the two progression actions) with negative, zero and positive           *)
(* arguments: whenever the loaded progression is not empty,                *)
(* 0 <= currentIndex < chords.length; setIndex(i) returns and stores       *)
(* i mod length, incrementIndex(a) returns and stores                      *)
(* (currentIndex + a) mod length, the mathematical (never negative)        *)
(* modulus; incrementIndex(-1) at index 0 of a 4-chord list gives 3.       *)
(***************************************************************************)
C19_InRange ==
    chords.length > 0 => currentIndex \in 0..(chords.length - 1)

C19_SetIndex ==
    \A i \in IndexArgs : \E r \in {setIndex(ProgState, i)} :
        chords.length > 0 =>
            /\ r.ret.ret = i % chords.length
            /\ r.st = [ProgState EXCEPT !.currentIndex = i % chords.length]

C19_IncrementIndex ==
    \A a \in IndexArgs : \E r \in {incrementIndex(ProgState, a)} :
        chords.length > 0 =>
            /\ r.ret.ret = (currentIndex + a) % chords.length
            /\ r.ret.ret >= 0
            /\ r.st = [ProgState EXCEPT
                          !.currentIndex = (currentIndex + a) % chords.length]

C19_Example ==
    chords.length = 4 /\ currentIndex = 0 =>
        incrementIndex(ProgState, 0 - 1).st.currentIndex = 3

C19_IndexWraps ==
    C19_InRange /\ C19_SetIndex /\ C19_IncrementIndex /\ C19_Example

\* incrementIndex(-1) has run at index 0 of the four chords of c-major-pop
C19_Witness ==
    /\ chords.list /\ chords.length = 4
    /\ progReturn.call = "incrementIndex"
    /\ progReturn.arg = 0 - 1
    /\ progReturn.ret = 3
    /\ currentIndex = 3


(***************************************************************************)
(* C20  An unknown progression name is refused.  loadProgression with a    *)
(* name that is not a key of the progression table returns false and       *)
(* leaves progressionName, chords and currentIndex as they were; the       *)
(* actions set-chord-in-progression and increment-chord-in-progression,    *)
(* given such a name, leave the strummer's note list as it was.            *)
(***************************************************************************)
C20_Known(name) == name \in DOMAIN progressions

C20_Refused(name) ==
    \E r \in {loadProgression(ProgState, name)} :
        r.ret.ret = FALSE /\ r.st = ProgState

\* as stated: every name that is not a known progression is refused
C20_UnknownRefused ==
    \A name \in ProgressionNames : ~C20_Known(name) => C20_Refused(name)

\* what the code keeps: a name that is no property at all is refused
C20_AbsentRefused ==
    \A name \in ProgressionNames :
        ~C20_Known(name) /\ name \notin DOMAIN ObjectPrototype => C20_Refused(name)

\* and the two actions never assign strummer.notes for an unknown name
C20_NotesKept ==
    \A name \in ProgressionNames : \A n \in IndexArgs :
        ~C20_Known(name) =>
            /\ ~setChordInProgression(name, n).assigned
            /\ ~incrementChordInProgression(name, n).assigned

C20_RestHolds == C20_AbsentRefused /\ C20_NotesKept

\* a name inherited from Object.prototype was loaded over c-major-pop
C20_Witness ==
    /\ progReturn.call = "loadProgression"
    /\ progReturn.arg = "constructor"
    /\ progReturn.ret = TRUE
    /\ progressionName = "constructor"
    /\ ~chords.list
    /\ "c-major-pop" \in DOMAIN progressions
    /\ Len(notes) = 3


(***************************************************************************)
(* C21  A chord symbol that cannot be parsed is refused.  The              *)
(* set-strum-chord action, given a symbol whose root is no note name (a    *)
(* typo), reports failure and leaves the strummer's note list as it was,   *)
(* so that every note the strummer holds has a notation with a chromatic   *)
(* index.                                                                  *)
(***************************************************************************)
\* the first one or two characters of the symbol name one of the 12 notes
C21_RootIsNote(symbol) ==
    \/ Len(symbol) >= 2 /\ symbol[2] \in {"#", "b"}
       /\ (IndexOf(sharpNotations, SubSeq(symbol, 1, 2)) >= 0
           \/ IndexOf(flatNotations, SubSeq(symbol, 1, 2)) >= 0)
    \/ Len(symbol) >= 1 /\ ~(Len(symbol) >= 2 /\ symbol[2] \in {"#", "b"})
       /\ IndexOf(sharpNotations, SubSeq(symbol, 1, 1)) >= 0

C21_Resolves(note) ==
    IndexOf(sharpNotations, note.notation) >= 0
    \/ IndexOf(flatNotations, note.notation) >= 0

\* as stated: a typo is refused and the notes stay
C21_TypoRefused ==
    \A symbol \in ChordSymbols, lo \in 0..MaxSpread, up \in 0..MaxSpread :
        \E r \in {setStrumChord(symbol, ActionOctave, lo, up)} :
            ~C21_RootIsNote(symbol) => ~r.ret.ret /\ ~r.assigned

\* as stated: the strummer holds notes with a chromatic index only
C21_NotesResolve ==
    \A i \in 1..Len(notes) : C21_Resolves(notes[i])

\* set-strum-chord with the typo "H" has loaded a note without notation
C21_Witness ==
    /\ progReturn.call = "setStrumChord"
    /\ progReturn.arg = <<(<<"H">>), ActionOctave, 0, 0>>
    /\ progReturn.ret = TRUE
    /\ Len(notes) = 3
    /\ notes[1].notation = UndefinedString
    /\ notes[1].octave = ActionOctave - 1
    /\ notes[2] = [notation |-> <<"D", "#">>, octave |-> ActionOctave,
                   secondary |-> FALSE]


(***************************************************************************)
(* C22  transposeNote moves a note by semitones and keeps its spelling.    *)
(* For every valid note n and every semitone count s, of either sign, the  *)
(* result has pitch index (octave * 12 + chromatic offset) equal to that   *)
(* of n plus s, also when this is below 0, and a notation out of the 12    *)
(* of the flat table when n is spelled flat and of the sharp table         *)
(* otherwise; transposeNote(C4, 12) = C5 and transposeNote(G4, -12) = G3.  *)
(***************************************************************************)
C22_Offset(notation) ==
    IF IndexOf(sharpNotations, notation) >= 0
    THEN IndexOf(sharpNotations, notation)
    ELSE IndexOf(flatNotations, notation)

C22_Pitch(note) == note.octave * 12 + C22_Offset(note.notation)

C22_FlatSpelled(note) == \E i \in 1..Len(note.notation) : note.notation[i] = "b"

C22_Moved(in, r) ==
        /\ C22_Offset(r.notation) >= 0
        /\ C22_Pitch(r) = C22_Pitch(in.note) + in.semitones
        /\ in.semitones # 0 =>
              IF C22_FlatSpelled(in.note)
              THEN IndexOf(flatNotations, r.notation) >= 0
              ELSE IndexOf(sharpNotations, r.notation) >= 0

\* as stated: for every note and every semitone count
C22_Transposed ==
    progReturn.call = "transposeNote" => C22_Moved(progReturn.arg, progReturn.ret)

\* what the code keeps: results at or above pitch index 0, and every
\* result that lands on a C
C22_TransposedFromZero ==
    progReturn.call = "transposeNote" =>
        \E in \in {progReturn.arg} :
            (C22_Pitch(in.note) + in.semitones >= 0
             \/ (C22_Pitch(in.note) + in.semitones) % 12 = 0)
            => C22_Moved(in, progReturn.ret)

C22_Examples ==
    progReturn.call = "transposeNote" =>
        /\ progReturn.arg = [note |-> [notation |-> <<"C">>, octave |-> 4,
                                       secondary |-> FALSE],
                             semitones |-> 12]
           => progReturn.ret = [notation |-> <<"C">>, octave |-> 5,
                                secondary |-> FALSE]
        /\ progReturn.arg = [note |-> [notation |-> <<"G">>, octave |-> 4,
                                       secondary |-> FALSE],
                             semitones |-> 0 - 12]
           => progReturn.ret = [notation |-> <<"G">>, octave |-> 3,
                                secondary |-> FALSE]

C22_RestHolds == C22_TransposedFromZero /\ C22_Examples

\* transposeNote(C0, -1) has returned a note of octave -1 without notation
C22_Witness ==
    /\ progReturn.call = "transposeNote"
    /\ progReturn.arg.note = [notation |-> <<"C">>, octave |-> 0,
                              secondary |-> FALSE]
    /\ progReturn.arg.semitones = 0 - 1
    /\ progReturn.ret.octave = 0 - 1
    /\ progReturn.ret.notation = UndefinedString


(***************************************************************************)
(* C23  Note.parseChord builds the chord tones from root and suffix.  For  *)
(* a root of one or two characters and a suffix of the interval table,     *)
(* the i-th note has pitch class (rootIndex + interval_i) mod 12, spelled  *)
(* sharp whatever the spelling of the root, and octave                     *)
(* octave + floor((rootIndex + interval_i) / 12), so the tones ascend      *)
(* strictly; no suffix is the major triad and an unknown suffix falls back *)
(* to the major triad; parseChord("Am7", 4) is A, C, E, G in that order.   *)
(***************************************************************************)
\* the root of a symbol and its suffix
C23_Root(symbol) ==
    IF Len(symbol) >= 2 /\ symbol[2] \in {"#", "b"}
    THEN SubSeq(symbol, 1, 2) ELSE SubSeq(symbol, 1, 1)

C23_Suffix(symbol) == SubSeq(symbol, Len(C23_Root(symbol)) + 1, Len(symbol))

\* the intervals of the suffixes asked for
C23_Intervals(suffix) ==
    CASE suffix = <<"m">> -> <<0, 3, 7>>
      [] suffix = <<"m", "7">> -> <<0, 3, 7, 10>>
      [] suffix = <<"9">> -> <<0, 4, 7, 10, 14>>
      [] suffix = <<"5">> -> <<0, 7>>
      [] OTHER -> <<0, 4, 7>>

C23_Tones(symbol, octave, r) ==
    LET rootIndex == C22_Offset(C23_Root(symbol))
        intervals == C23_Intervals(C23_Suffix(symbol))
    IN  /\ Len(r) = Len(intervals)
        /\ \A i \in 1..Len(r) :
              /\ r[i].notation = sharpNotations[((rootIndex + intervals[i]) % 12) + 1]
              /\ r[i].octave = octave + ((rootIndex + intervals[i]) \div 12)
        /\ \A i \in 1..(Len(r) - 1) : C22_Pitch(r[i]) < C22_Pitch(r[i + 1])

\* as stated: in whatever octave the chord is asked
C23_ChordTones ==
    progReturn.call = "setStrumChord" =>
        \E symbol \in {progReturn.arg[1]}, octave \in {progReturn.arg[2]} :
            C21_RootIsNote(symbol)
            => C23_Tones(symbol, octave, parseChord(symbol, octave))

\* what the code keeps: the chord tones in the octaves 0 to 9, and with
\* them the notes the strummer is given when no spread is configured
C23_OneDigitOctaves ==
    progReturn.call = "setStrumChord" =>
        \E symbol \in {progReturn.arg[1]}, octave \in {progReturn.arg[2]} :
            C21_RootIsNote(symbol) /\ octave \in 0..9
            => /\ C23_Tones(symbol, octave, parseChord(symbol, octave))
               /\ progReturn.arg[3] = 0 /\ progReturn.arg[4] = 0
                  => C23_Tones(symbol, octave, notes)
               /\ symbol = <<"A", "m", "7">> /\ octave = ActionOctave
                  => [i \in 1..4 |-> parseChord(symbol, octave)[i].notation]
                     = << <<"A">>, <<"C">>, <<"E">>, <<"G">> >>

\* set-strum-chord "C" in octave 10 has loaded a chord without its root
C23_Witness ==
    /\ progReturn.call = "setStrumChord"
    /\ progReturn.arg = <<(<<"C">>), MaxOctave, 0, 0>>
    /\ Len(notes) = 3
    /\ notes[1].notation = UndefinedString
    /\ notes[2].notation = <<"D", "#">>


(***************************************************************************)
(* C24  Note.fillNoteSpread lays the spread around the notes.  For an     *)
(* empty list it returns the empty list; otherwise a list of               *)
(* |notes| + lower + upper notes: the lower spread, the notes unchanged    *)
(* and in order, the upper spread.  The c-th upper note (from 0) is        *)
(* notes[c mod n] raised by floor(c/n) + 1 octaves, the c-th lower note is *)
(* notes[n - 1 - (c mod n)] lowered by floor(c/n) + 1 octaves; the spread  *)
(* notes, and only they, are flagged secondary;                            *)
(* ([C4, E4, G4], 1, 1) = [G3*, C4, E4, G4, C5*].                          *)
(***************************************************************************)
C24_Layout(ns, lo, up, r) ==
    LET n == Len(ns)
    IN  IF n = 0 THEN r = <<>>
        ELSE /\ Len(r) = n + lo + up
             /\ \A i \in 1..n : r[lo + i] = ns[i]
             /\ \A c \in 0..(up - 1) :
                   r[lo + n + c + 1] =
                       [notation |-> ns[(c % n) + 1].notation,
                        octave |-> ns[(c % n) + 1].octave + (c \div n) + 1,
                        secondary |-> TRUE]
             /\ \A c \in 0..(lo - 1) :
                   r[c + 1] =
                       [notation |-> ns[n - (c % n)].notation,
                        octave |-> ns[n - (c % n)].octave - (c \div n) - 1,
                        secondary |-> TRUE]
             /\ \A i \in 1..Len(r) : r[i].secondary <=> (i <= lo \/ i > lo + n)

\* ([C4, E4, G4], 1, 1) = [G3*, C4, E4, G4, C5*]
C24_Example ==
    (/\ progReturn.call = "setStrumChord"
     /\ progReturn.arg = <<(<<"C">>), ActionOctave, 1, 1>>) =>
    notes = << [notation |-> <<"G">>, octave |-> 3, secondary |-> TRUE],
                  [notation |-> <<"C">>, octave |-> 4, secondary |-> FALSE],
                  [notation |-> <<"E">>, octave |-> 4, secondary |-> FALSE],
                  [notation |-> <<"G">>, octave |-> 4, secondary |-> FALSE],
                  [notation |-> <<"C">>, octave |-> 5, secondary |-> TRUE] >>

C24_Spread ==
    /\ C24_Example
    /\ \A lo \in 0..MaxSpread, up \in 0..MaxSpread :
          fillNoteSpread(<<>>, lo, up) = <<>>
    /\ progReturn.call = "setStrumChord" =>
          \E ns \in {parseChord(progReturn.arg[1], progReturn.arg[2])} :
              /\ C24_Layout(ns, progReturn.arg[3], progReturn.arg[4], notes)
              /\ \A lo \in 0..MaxSpread, up \in 0..MaxSpread :
                    C24_Layout(ns, lo, up, fillNoteSpread(ns, lo, up))

\* set-strum-chord of the two-note chord "D5" with spreads that go round
\* its notes more than once
C24_Witness ==
    /\ progReturn.call = "setStrumChord"
    /\ progReturn.arg = <<(<<"D", "5">>), ActionOctave, MaxSpread, MaxSpread>>
    /\ Len(notes) = 2 + 2 * MaxSpread
    /\ notes[MaxSpread].octave < ActionOctave - 1
    /\ notes[Len(notes)].octave > ActionOctave + 1


(***************************************************************************)
(* C25  calculateEffectValue maps a control input into [min, max].  The    *)
(* input is multiplied by the multiplier and clamped to [0, 1]; then       *)
(* direct maps 0 to min and 1 to max, inverse maps 0 to max and 1 to min,  *)
(* central maps 0.5 to max and both 0 and 1 to min, whatever the curve     *)
(* exponent; with curve 1 the output is linear in the clamped input; and   *)
(* the output never leaves the interval between min and max, for any       *)
(* input and any multiplier.                                               *)
(***************************************************************************)
\* the input after multiplier and clamp, in units of 1/EScale
C25_Clamped(in) == Max(0, Min(EScale, in.inputValue * in.multiplier))

C25_Min(in) == in.range[1] * EScale
C25_Max(in) == in.range[2] * EScale

\* the ends and the centre, for any curve
C25_Ends(in, out) ==
    /\ C25_Clamped(in) = 0 =>
          out = IF in.spread = "inverse" THEN C25_Max(in) ELSE C25_Min(in)
    /\ C25_Clamped(in) = EScale =>
          out = IF in.spread = "direct" THEN C25_Max(in) ELSE C25_Min(in)
    /\ 2 * C25_Clamped(in) = EScale /\ in.spread = "central" =>
          out = C25_Max(in)

\* curve 1: linear
C25_Linear(in, out) ==
    in.curve = 1 =>
        LET span == in.range[2] - in.range[1]
            x == C25_Clamped(in)
        IN  out = CASE in.spread = "direct" -> C25_Min(in) + x * span
                    [] in.spread = "inverse" -> C25_Max(in) - x * span
                    [] OTHER -> C25_Max(in) - Max(2 * x - EScale, EScale - 2 * x) * span

C25_Within(in, out) == out # NaN /\ out >= C25_Min(in) /\ out <= C25_Max(in)

\* as stated: for any input, multiplier and curve
C25_EffectValue ==
    progReturn.call = "calculateEffectValue" =>
        /\ C25_Ends(progReturn.arg, progReturn.ret)
        /\ C25_Linear(progReturn.arg, progReturn.ret)
        /\ C25_Within(progReturn.arg, progReturn.ret)

\* what the code keeps: the same, the interval for a curve other than 0
C25_NonZeroCurve ==
    progReturn.call = "calculateEffectValue" =>
        /\ C25_Ends(progReturn.arg, progReturn.ret)
        /\ C25_Linear(progReturn.arg, progReturn.ret)
        /\ progReturn.arg.curve # 0 => C25_Within(progReturn.arg, progReturn.ret)

\* an input of 0.25 on a direct effect with curve 0 has given NaN
C25_Witness ==
    /\ progReturn.call = "calculateEffectValue"
    /\ progReturn.arg = [inputValue |-> 1, range |-> <<20, 127>>,
                         multiplier |-> 1, curve |-> 0, spread |-> "direct"]
    /\ progReturn.ret = NaN


(***************************************************************************)
(* C26  Every numeric field of a decoded frame is normalized: a range or   *)
(* multi-byte-range field lies in [0, 1] and a bipolar-range field in      *)
(* [-1, 1], for every raw byte value 0..255, every little-endian           *)
(* multi-byte value and every configured min / max or positive / negative  *)
(* bounds; a multi-byte value is the sum of byte[i] * 256^i; max = min     *)
(* gives 0.                                                                *)
(***************************************************************************)
\* the fraction v lies in [lo, hi]
C26_Within(v, lo, hi) ==
    /\ v.kind = "number"
    /\ v.d # 0
    /\ IF v.d > 0 THEN lo * v.d <= v.n /\ v.n <= hi * v.d
       ELSE lo * v.d >= v.n /\ v.n >= hi * v.d

C26_Normal(m, v) ==
    IF m.type = "bipolar-range" THEN C26_Within(v, 0 - 1, 1)
    ELSE C26_Within(v, 0, 1)

\* as stated: the numeric fields of the frame decoded last
C26_Normalized ==
    decoded =>
        \A k \in 1..Len(hidConfig.mappings) :
            \E m \in {hidConfig.mappings[k]} :
                (m.type \in {"range", "multi-byte-range", "bipolar-range"}
                 /\ m.key \in DOMAIN lastFrame)
                => C26_Normal(m, lastFrame[m.key])

\* what the code keeps, for every byte 0..255 under the bounds of the
\* tables: a raw value inside the configured bounds is normalized
C26_InsideBounds(m) ==
    /\ m.type = "range" =>
          \A b \in 0..ByteMax :
              (m.min <= b /\ b <= m.max /\ m.min < m.max)
              => C26_Normal(m, parseRangeData(<<b>>, 0, m.min, m.max))
    /\ m.type = "bipolar-range" =>
          \A b \in 0..ByteMax :
              ((m.positiveMin = 0 /\ b <= m.positiveMax /\ b < m.negativeMax)
               \/ (m.negativeMax <= b /\ b <= m.negativeMin
                   /\ m.negativeMax < m.negativeMin))
              => C26_Normal(m, parseBipolarRangeData(<<b>>, 0,
                                   m.positiveMin, m.positiveMax,
                                   m.negativeMin, m.negativeMax))
    /\ m.type = "multi-byte-range" =>
          \A lo \in {0, 1, ByteMax}, hi \in {0, 1, ByteMax} :
              /\ CombineBytes(<<lo, hi>>, <<0, 1>>, 1) = lo + 256 * hi
              /\ (m.min <= lo + 256 * hi /\ lo + 256 * hi <= m.max)
                 => C26_Normal(m, parseMultiByteRangeData(<<lo, hi>>, <<0, 1>>,
                                                          m.min, m.max))
    /\ \A b \in 0..ByteMax :
          /\ parseRangeData(<<b>>, 0, m.max, m.max) = Zero
          /\ parseMultiByteRangeData(<<b, b>>, <<0, 1>>, m.max, m.max) = Zero

C26_RestHolds ==
    decoded =>
        \A k \in 1..Len(hidConfig.mappings) :
            C26_InsideBounds(hidConfig.mappings[k])

\* a pen report whose tilt byte 160 lies between positiveMax 60 and
\* negativeMax 196: tiltX is 160/60
C26_Witness ==
    /\ decoded
    /\ hidConfig.mappings = TabletBitFlags
    /\ Len(lastReport) = 3
    /\ lastReport[1] = StatusCodes.hover
    /\ lastReport[3] = StatusCodes.hover
    /\ "tiltX" \in DOMAIN lastFrame
    /\ lastFrame["tiltX"] = Num(160, 60)


(***************************************************************************)
(* C27  sendNote and releaseNotes transmit, for a note {notation, octave}  *)
(* with a valid notation, the pitch octave * 12 + chromatic offset of the  *)
(* notation, for every integer octave of a range that includes octaves     *)
(* below 0 and above 9.                                                    *)
(***************************************************************************)
C27_Offset(notation) ==
    IF IndexOf(sharpNotations, notation) # 0 - 1
    THEN IndexOf(sharpNotations, notation)
    ELSE IndexOf(flatNotations, notation)

C27_Pitch(note) == note.octave * 12 + C27_Offset(note.notation)

C27_Sent(note) ==
    \E pitch \in {C27_Pitch(note)} :
        /\ \A velocity \in Velocities, duration \in Durations :
             sendNote(note, velocity, duration).out =
                 [i \in 1..Len(StrumChannels) |->
                     <<144 + StrumChannels[i], pitch, velocity>>]
        /\ releaseNotes(<<note>>).out =
               [i \in 1..Len(StrumChannels) |->
                   <<128 + StrumChannels[i], pitch, 64>>]

\* as stated: every note the calls are made with, and the conversion for
\* every notation in the octaves -1..MaxOctave
C27_PitchSent ==
    midiOut =>
        /\ \A note \in MidiNotes : C27_Sent(note)
        /\ \A k \in 1..12, octave \in (0 - 1)..MaxOctave :
             \A notation \in {sharpNotations[k], flatNotations[k]} :
                \E note \in {[notation |-> notation, octave |-> octave]} :
                    NoteToMIDI(note) = C27_Pitch(note)

\* what the code keeps: every notation, sharp or flat, in the one-digit
\* octaves 0..9
C27_OneDigitOctaves ==
    midiOut =>
        /\ \A note \in MidiNotes : note.octave \in 0..9 => C27_Sent(note)
        /\ C27_Sent(C4Note)
        /\ \A k \in 1..12, octave \in 0..9 :
             \A notation \in {sharpNotations[k], flatNotations[k]} :
                \E note \in {[notation |-> notation, octave |-> octave]} :
                    NoteToMIDI(note) = C27_Pitch(note)

\* the note C# of octave MaxOctave has been sent, and went out as a pitch
\* below 12 where octave * 12 + 1 is above 120
C27_Witness ==
    /\ midiOut
    /\ \E note \in MidiNotes :
         /\ note.octave = MaxOctave
         /\ C27_Pitch(note) > 120
         /\ NoteToMIDI(note) < 12
         /\ \E k \in DOMAIN hist : KeyPitch(k) = NoteToMIDI(note)


(***************************************************************************)
(* C28  EventEmitter.once: a callback registered with once() is invoked at *)
(* most once over any sequence of emits of the event, including an emit    *)
(* of the same event issued from inside a callback during the first emit,  *)
(* and after its invocation it is no longer registered (listenerCount no   *)
(* longer counts it).                                                      *)
(***************************************************************************)
\* the functions registered so far, and those made by once()
C28_Registered == 1..(nextListener - 1)
C28_IsListed(id) ==
    \E i \in 1..Len(emitterCallbacks) : emitterCallbacks[i].id = id
C28_IsWaiting(id) ==
    \E d \in 1..Len(emitStack) :
        \E i \in 1..Len(emitStack[d]) :
            emitStack[d][i].id = id /\ emitStack[d][i].once

\* invoked once, a once() callback is off the Set
C28_TakenOff ==
    \A i \in 1..Len(emitterCallbacks) :
        emitterCallbacks[i].once =>
            invocations[emitterCallbacks[i].id].count = 0

\* no once() callback has run twice
C28_AtMostOnce ==
    \A id \in C28_Registered :
        invocations[id].once => invocations[id].count <= 1

\* as stated: whether or not an emit was issued from inside a callback
C28_Once == C28_TakenOff /\ C28_AtMostOnce

\* what the code keeps: the claim, while no emit was issued from inside a
\* callback; and the callback is off the Set once invoked, always
C28_RestHolds == C28_TakenOff /\ (~reentered => C28_AtMostOnce)

\* a once() callback has been invoked twice during one emit from outside,
\* and is on no Set and in no callbackArray
C28_Witness ==
    \E id \in C28_Registered :
        /\ invocations[id].once
        /\ invocations[id].count = 2
        /\ ~C28_IsListed(id)
        /\ ~C28_IsWaiting(id)
        /\ reentered
        /\ emitCount = 1


(***************************************************************************)
(* C29  Auto-release: when the timer of key k fires, no later send,        *)
(* release or close having touched k, it transmits note-off                *)
(* [0x80 + ch, pitch, 0x40] to exactly the channels that received the      *)
(* note-on for k, once each, and removes k from both activeNoteTimers and  *)
(* noteStartTimes; between operations the two maps have the same key set.  *)
(***************************************************************************)
\* the channels of the note-on messages in out, in order
C29_OnChannels(out) == [i \in 1..Len(out) |-> out[i][1] - 144]

\* the timer a send leaves pending: its callback answers the note-ons of
\* the send, channel by channel
C29_Answers(e) ==
    \E t \in e.pending :
        /\ t.id = nextTimerId
        /\ KeyChannels(t.key) = C29_OnChannels(e.out)
        /\ \A i \in 1..Len(e.out) : e.out[i][2] = KeyPitch(t.key)
        /\ \A i, j \in 1..Len(e.out) : i # j => e.out[i][1] # e.out[j][1]

C29_SendsAnswered ==
    /\ \A note \in MidiNotes, velocity \in Velocities, duration \in Durations :
          C29_Answers(sendNote(note, velocity, duration))
    /\ \A midiNote \in RawPitches, velocity \in Velocities,
          channel \in ExplicitChannels, duration \in Durations :
          C29_Answers(sendRawNote(midiNote, velocity, channel, duration))

\* the callback of a pending timer
C29_Fires(t) ==
    \E e \in {timerCallback(t)} :
        /\ e.out = [i \in 1..Len(KeyChannels(t.key)) |->
                       <<128 + KeyChannels(t.key)[i], KeyPitch(t.key), 64>>]
        /\ t.key \notin DOMAIN e.ant
        /\ t.key \notin DOMAIN e.nst
        /\ DOMAIN e.ant = DOMAIN e.nst
        /\ e.pending = timers \ {t}

C29_AutoRelease ==
    /\ DOMAIN activeNoteTimers = DOMAIN noteStartTimes
    /\ midiOut => C29_SendsAnswered
    /\ \A t \in timers :
         /\ midiOut
         /\ t.key \in DOMAIN activeNoteTimers
         /\ hist[t.key].fires = 0
         /\ C29_Fires(t)
    /\ \A k \in DOMAIN hist :
         hist[k].fires > 0 =>
            /\ hist[k].fires = 1
            /\ (k \in DOMAIN activeNoteTimers => \E t \in timers : t.key = k)

\* the timer of a broadcast note has fired and its key has left both maps,
\* while another key is still in both
C29_Witness ==
    \E k \in DOMAIN hist :
        /\ hist[k].fires = 1
        /\ hist[k].cancelled = "no"
        /\ Len(KeyChannels(k)) = NumChannels
        /\ k \notin DOMAIN activeNoteTimers
        /\ k \notin DOMAIN noteStartTimes
        /\ activeNoteTimers # EmptyMap


(***************************************************************************)
(* C30  Retrigger protection per wire channel: for any pitch p and wire    *)
(* channel c, once a note-on for (p, c) has been transmitted by sendNote   *)
(* or sendRawNote, no timer-driven note-off for (p, c) is transmitted      *)
(* before that note-on's own duration has elapsed, also when an earlier    *)
(* note of the same pitch was sent with a different channel set that       *)
(* contains c.                                                             *)
(***************************************************************************)
C30_HasChannel(key, c) ==
    \E i \in 1..Len(KeyChannels(key)) : KeyChannels(key)[i] = c

\* the note-ons for (pitch, c) whose duration has not elapsed: the keys of
\* the pitch that hold c and have a timer pending beyond now
C30_Sounding(pitch, c) ==
    {t \in timers : /\ KeyPitch(t.key) = pitch
                    /\ C30_HasChannel(t.key, c)
                    /\ t.due > now}

\* the callback of t transmits a note-off for (pitch, c)
C30_TurnsOff(t, pitch, c) ==
    \E e \in {timerCallback(t)} :
        \E i \in 1..Len(e.out) : e.out[i] = <<128 + c, pitch, 64>>

\* as stated: no timer that is due turns off a (pitch, channel) whose
\* note-on has its duration still running
C30_PerChannel ==
    \A t \in Due :
        \A c \in 0..(NumChannels - 1) :
            C30_TurnsOff(t, KeyPitch(t.key), c)
            => C30_Sounding(KeyPitch(t.key), c) = {}

\* what the code keeps: the protection per key, that is, per pitch and
\* whole channel set
C30_PerKey ==
    \A t \in Due :
        /\ \A u \in timers : u.key = t.key => u = t
        /\ hist[t.key].due = t.due
        /\ \A c \in 0..(NumChannels - 1) :
             C30_TurnsOff(t, KeyPitch(t.key), c)
             => \A u \in C30_Sounding(KeyPitch(t.key), c) : u.key # t.key

\* a broadcast note's timer is due while a note of the same pitch, sent
\* later on one explicit channel, is still within its duration
C30_Witness ==
    \E t \in Due, u \in timers :
        /\ Len(KeyChannels(t.key)) = NumChannels
        /\ Len(KeyChannels(u.key)) = 1
        /\ KeyPitch(u.key) = KeyPitch(t.key)
        /\ u.due > now
        /\ noteStartTimes[u.key] >= noteStartTimes[t.key]
        /\ u.id > t.id
        /\ C30_TurnsOff(t, KeyPitch(u.key), KeyChannels(u.key)[1])


(***************************************************************************)
(* C31  Every note carried by an emitted strum event is an element of the  *)
(* current note list: its string index lies in 0..N-1 for the list in      *)
(* force when the event is emitted, for any interleaving of strum samples  *)
(* with replacement of the note list by a list of a different length,      *)
(* including replacement while Buffering or Held.                          *)
(***************************************************************************)
C31_InCurrentList(ev, ns) ==
    ev.type = "strum" =>
        \A k \in 1..Len(ev.notes) :
            /\ ev.notes[k].idx \in 0..(Len(ns) - 1)
            /\ ev.notes[k].note = ns[ev.notes[k].idx + 1]

\* as stated: the event returned last, against the list in force
C31_InList == C31_InCurrentList(result, notes)

\* what the code keeps: while the index of the tap pending and of the
\* string held lie within the list, a sample on the surface emits notes of
\* the list only
C31_RestHolds ==
    (lastStrummedIndex < Len(notes) /\ pendingTapIndex < Len(notes)) =>
        \A x \in Positions, p \in {0, 5, PScale} :
            x >= 0 => C31_InCurrentList(StrumStep(x, p).ret, notes)

\* a strum event carries a string index at or beyond the length of the
\* list in force: the list was replaced by a shorter one during the press
C31_Witness ==
    /\ result.type = "strum"
    /\ Len(notes) > 0
    /\ \E k \in 1..Len(result.notes) :
         /\ result.notes[k].idx >= Len(notes)
         /\ result.notes[k].note = Undefined


(***************************************************************************)
(* C32  After a strum event has been emitted, the first later sample whose *)
(* pressure is below the threshold in force at that sample returns a       *)
(* release event, and no further strum is emitted before that release,     *)
(* for any interleaving of strum samples with configure() calls that raise *)
(* or lower the threshold (clearStrum not called, note list non-empty).    *)
(***************************************************************************)
\* a strum has been emitted and no sample has taken the release branch since
C32_Sounding == lastEmittedVel # 0 /\ ~NotesEmpty(notes)

C32_Releases(x, p) == StrumStep(x, p).ret.type = "release"

\* as stated: every sample below the threshold in force
C32_ReleaseFirst ==
    C32_Sounding =>
        \A x \in Positions, p \in AllPressures :
            p < pressureThreshold => C32_Releases(x, p)

\* what the code keeps: the release, while the pressure seen last is still
\* at or above the threshold in force and the velocity stored is a number
C32_RestHolds ==
    (C32_Sounding /\ lastPressure >= pressureThreshold
                  /\ lastStrumVelocity # NaN) =>
        \A x \in Positions, p \in AllPressures :
            p < pressureThreshold => C32_Releases(x, p)

\* a string sounds at a velocity above the minimum, the threshold has been
\* raised, and a sample of pressure 0 has returned no event
C32_Witness ==
    /\ C32_Sounding
    /\ lastEmittedVel > MinVelocity
    /\ lastStrummedIndex # NoIndex
    /\ pressureThreshold = PScale
    /\ lastPressure = 0
    /\ result = NoEvent
    /\ ~ignored
    /\ ~justCleared


(***************************************************************************)
(* C33  A HID report that decodes to a frame without a pressure field      *)
(* (device in 'buttons' mode, button-only interface, or a buffer too short *)
(* for the field) does not make the strum engine emit a strum or a release *)
(* and does not change its state: held pressure is not treated as dropped  *)
(* to 0 because a field was omitted.                                       *)
(***************************************************************************)
C33_StrummerFields ==
    <<lastStrummedIndex, lastPressure, lastStrumVelocity, pressureBuffer,
      pendingTapIndex>>

\* what the strummer is left with by the frame of a report
C33_After(data) ==
    \E frame \in {processDeviceData(data)} :
        LET x == IF "x" \in DOMAIN frame THEN frame["x"] ELSE Zero
            r == StrumStep((x.n * XScale) \div x.d, 0)
        IN  "pressure" \notin DOMAIN frame =>
                /\ r.ret = NoEvent
                /\ <<r.lsi, r.lp, r.vel, r.buf, r.pti>> = C33_StrummerFields

C33_Reports == UNION {ReportsOfLength(n) : n \in 0..MaxReportLen}

\* as stated: every report whose frame has no pressure field
C33_NoPressureIgnored ==
    ~NotesEmpty(notes) => \A data \in C33_Reports : C33_After(data)

\* what the code keeps: such a frame changes nothing while no pressure is
\* held and no tap is pending
C33_RestHolds ==
    (~NotesEmpty(notes) /\ lastPressure < pressureThreshold
                        /\ pendingTapIndex = NoIndex) =>
        \A data \in C33_Reports : C33_After(data)

\* a report in 'buttons' mode, decoded to a frame without pressure, has
\* made the strummer return a release
C33_Witness ==
    /\ decoded
    /\ Len(lastReport) = MaxReportLen
    /\ lastReport[1] = StatusCodes.buttons
    /\ "pressure" \notin DOMAIN lastFrame
    /\ result.type = "release"
    /\ lastStrummedIndex = NoIndex


(***************************************************************************)
(* C39  Direct app strum-release feature: when strumRelease.active is      *)
(* false (the default), a release event from the strum engine transmits no *)
(* MIDI note; a release note is sent through sendRawNote only when the     *)
(* feature is active, a midiNote is configured and the current duration is *)
(* at most maxDuration.                                                    *)
(***************************************************************************)
\* the handler's sends for a sample that makes the strummer return a
\* release, under a configuration and a duration
C39_OnRelease(x, p, cfg, duration, P(_)) ==
    \E r \in {StrumStep(x, p).ret} :
        r.type = "release" => P(HandleStrumResult(r, cfg, duration))

C39_Silent(e) == e.out = <<>>

\* as stated
C39_ReleaseNote ==
    midiOut =>
        \A x \in Positions, p \in {0, 5, PScale},
           cfg \in StrumReleaseConfigs, duration \in Durations :
            LET Allowed(e) ==
                    ~C39_Silent(e) =>
                        /\ cfg.active
                        /\ cfg.midiNote # Undefined
                        /\ duration <= cfg.maxDuration
            IN  /\ ~cfg.active => C39_OnRelease(x, p, cfg, duration, C39_Silent)
                /\ C39_OnRelease(x, p, cfg, duration, Allowed)

\* what the code keeps: the note needs a midiNote and a duration within
\* maxDuration, and goes out by sendRawNote on the configured channel
C39_RestHolds ==
    midiOut =>
        \A x \in Positions, p \in {0, 5, PScale},
           cfg \in StrumReleaseConfigs, duration \in Durations :
            LET Sent(e) ==
                    IF cfg.midiNote # Undefined /\ duration <= cfg.maxDuration
                    THEN \E velocity \in 1..MaxVelocity :
                            e = sendRawNote(cfg.midiNote, velocity,
                                            cfg.midiChannel, duration)
                    ELSE C39_Silent(e)
            IN  C39_OnRelease(x, p, cfg, duration, Sent)

\* the strummer has returned a release and the note of the default
\* configuration, where the feature is off, is sounding
C39_Witness ==
    /\ midiOut
    /\ result.type = "release"
    /\ \E cfg \in StrumReleaseConfigs :
         /\ ~cfg.active
         /\ \E k \in DOMAIN activeNoteTimers :
              /\ KeyPitch(k) = cfg.midiNote
              /\ noteStartTimes[k] = now


(***************************************************************************)
(* C34  Every note-on transmitted for a pitch on a channel is eventually   *)
(* followed by a note-off for that pitch on that channel (from its         *)
(* auto-release timer, from the timer of a later retrigger, or from        *)
(* releaseNotes), assuming pending timers eventually fire and finitely     *)
(* many sends occur, for any interleaving of sendNote, sendRawNote,        *)
(* releaseNotes and close().  Stated per key, a pitch with the channels    *)
(* its note-on went to, for the notes due within the time modelled.        *)
(***************************************************************************)
C34_Keys ==
    {NoteKey(midiNote, channels) :
        midiNote \in {NoteToMIDI(note) : note \in MidiNotes} \cup RawPitches,
        channels \in {AllChannels} \cup
                     {<<WireChannel(c)>> : c \in {1} \cup (ExplicitChannels \ {Null})}}

\* the last note-on of the key has had no note-off
C34_Sounding(k) ==
    /\ k \in DOMAIN hist
    /\ hist[k].due <= MaxTime
    /\ hist[k].fires = 0
    /\ hist[k].cancelled # "release"

\* the last note-on of the key has had its note-off, by timer or release
C34_Off(k) ==
    /\ k \in DOMAIN hist
    /\ hist[k].fires >= 1 \/ hist[k].cancelled = "release"

\* the timer of the last note-on of the key was dropped by close()
C34_Closed(k) ==
    /\ k \in DOMAIN hist
    /\ hist[k].cancelled = "close"

\* a retrigger has moved the end of the note past the time modelled
C34_Later(k) ==
    /\ k \in DOMAIN hist
    /\ hist[k].due > MaxTime

\* as stated
C34_NoteOffFollows ==
    \A k \in C34_Keys : C34_Sounding(k) ~> (C34_Off(k) \/ C34_Later(k))

\* what the code keeps: the note-off follows unless close() came between
C34_RestHolds ==
    /\ [](DOMAIN hist \subseteq C34_Keys)
    /\ \A k \in C34_Keys : C34_Sounding(k) ~> (C34_Off(k) \/ C34_Later(k) \/ C34_Closed(k))

\* a note-on went out, close() dropped its timer, the time the note was
\* due to end has passed, and no timer is left to end it
C34_Witness ==
    \E k \in DOMAIN hist :
        /\ C34_Sounding(k)
        /\ C34_Closed(k)
        /\ hist[k].due <= now
        /\ timers = {}


(***************************************************************************)
(* C40  Pitch numbering is consistent between MIDI input and output: a     *)
(* note received as MIDI pitch number p, decoded by midiCallback into      *)
(* (notation, octave) and sent back through sendNote, is transmitted with  *)
(* pitch number p, for every p in 0..127.                                  *)
(***************************************************************************)
\* a note message has been decoded and handed to onNoteDown or onNoteUp
C40_Decoded ==
    /\ progReturn.call = "midiCallback"
    /\ progReturn.ret.handler # "none"

\* sendNote of the decoded note puts out note-ons, all with pitch number p
C40_SentBackAs(p) ==
    \E e \in {sendNote(progReturn.ret.note, MaxVelocity, 1)} :
        /\ ~e.threw
        /\ e.out # <<>>
        /\ \A i \in 1..Len(e.out) : e.out[i][2] = p

\* as stated
C40_RoundTrip ==
    (midiOut /\ C40_Decoded) => C40_SentBackAs(progReturn.arg[2])

\* what the code keeps: from pitch 12 up the note comes back an octave
\* lower, the notation unchanged
C40_RestHolds ==
    (midiOut /\ C40_Decoded /\ progReturn.arg[2] >= Len(sharpNotations)) =>
        /\ C40_SentBackAs(progReturn.arg[2] - Len(sharpNotations))
        /\ sharpNotations[(progReturn.arg[2] % Len(sharpNotations)) + 1]
             = progReturn.ret.note.notation

\* middle C, pitch number 60, is decoded as C4 and sent back as 48
C40_Witness ==
    /\ midiOut
    /\ C40_Decoded
    /\ progReturn.arg[2] = 60
    /\ progReturn.ret.note = C4Note
    /\ C40_SentBackAs(48)


(***************************************************************************)
(* C35  loadChordProgressions: for any number of calls in any interleaving *)
(* (before, during or after the load completes or fails) at most one fetch *)
(* of the progressions file is issued and every caller receives a promise  *)
(* that resolves without error; if the fetch fails, CHORD_PROGRESSIONS     *)
(* holds exactly the fallback 'c-major-pop' = [C, G, Am, F].               *)
(***************************************************************************)
\* the state of the promise a caller was handed
C35_PromiseOf(caller) ==
    IF caller.got = "resolved" THEN "fulfilled" ELSE loadPromise

C35_OneFetch == fetchCount <= 1

\* no caller's promise is rejected; it is pending only while the fetch or
\* the parse is outstanding, and fulfilled once the body has ended
C35_Resolves ==
    \A i \in 1..Len(loadCallers) :
        /\ C35_PromiseOf(loadCallers[i]) \in {"pending", "fulfilled"}
        /\ C35_PromiseOf(loadCallers[i]) = "pending"
             <=> loadBody \in {"fetch", "json"}

C35_Fallback ==
    loadBody = "failed" =>
        /\ progressions = DefaultProgressions
        /\ DOMAIN progressions = {"c-major-pop"}
        /\ progressions["c-major-pop"].items
             = << <<"C">>, <<"G">>, <<"A", "m">>, <<"F">> >>

C35_LoadOnce ==
    /\ C35_OneFetch
    /\ C35_Resolves
    /\ C35_Fallback

\* callers before, during and after a load that failed: one fetch, the
\* fallback in place, every promise fulfilled
C35_Witness ==
    /\ Len(loadCallers) = MaxCalls
    /\ loadCallers[1].during = "idle"
    /\ \E i \in 1..Len(loadCallers) : loadCallers[i].during \in {"fetch", "json"}
    /\ \E i \in 1..Len(loadCallers) : loadCallers[i].during = "failed"
    /\ loadBody = "failed"
    /\ fetchCount = 1
    /\ progressions = DefaultProgressions


(***************************************************************************)
(* C36  TabletController: whenever isConnected() is true an HID reader and *)
(* a primary device are attached (hidReader and hidDevice are non-null),   *)
(* for any interleaving of the asynchronous connect path                   *)
(* (handleDeviceConnect / setupDevice awaiting close and startReading)     *)
(* with the device-disconnect callback.                                    *)
(***************************************************************************)
C36_Attached ==
    /\ hidReader # Null
    /\ hidDevice # Null

\* as stated
C36_ConnectedAttached == connected => C36_Attached

\* what the code keeps: connected by a setupDevice call during which no
\* disconnect was reported, the controller has a reader and its primary
\* device; and a disconnect leaves it not connected with neither
C36_RestHolds ==
    /\ (connected /\ ~connectedBy.cut) =>
          /\ C36_Attached
          /\ hidReader \in 1..Len(readers)
    /\ \A e \in {handleDeviceDisconnect(Controller)} :
          ~e.connected /\ e.hidReader = Null /\ e.hidDevice = Null

\* the device went while setupDevice awaited startReading, and the call
\* went on to report the controller connected
C36_Witness ==
    /\ connected
    /\ connectedBy.cut
    /\ lastConnection = "connected"
    /\ hidReader = Null
    /\ hidDevice = Null
    /\ deviceInfo = Null


(***************************************************************************)
(* C37  StrummerApp WebSocket state: connectionStatus is 'connected' only  *)
(* while the socket currently held in this.webSocket is open; open, error  *)
(* and close events of a socket that has been superseded by a later        *)
(* connectWebSocket call or dropped by disconnectWebSocket never change    *)
(* connectionStatus or connectionError.                                    *)
(***************************************************************************)
\* the sockets made that the app no longer holds
C37_Superseded == {s \in 1..Len(sockets) : s # webSocket}

\* the handler leaves connectionStatus and connectionError as they are
C37_Ignored(e) ==
    /\ e.status = connectionStatus
    /\ e.error = connectionError

\* the events the socket can still have leave the status alone
C37_EventsIgnored(s) ==
    /\ sockets[s] = "connecting" => C37_Ignored(onopen(Connection))
    /\ sockets[s] # "closed" => C37_Ignored(onclose(onerror(Connection)))
    /\ sockets[s] \in {"open", "closing"} => C37_Ignored(onclose(Connection))

\* as stated
C37_StatusOfHeldSocket ==
    /\ connectionStatus = "connected" => HeldOpen
    /\ \A s \in C37_Superseded : C37_EventsIgnored(s)

\* what the code keeps: while every socket the app has let go of is
\* closed, 'connected' means the socket held is open, and the handlers set
\* what the source sets
C37_RestHolds ==
    /\ (\A s \in C37_Superseded : sockets[s] = "closed") =>
          (connectionStatus = "connected" => HeldOpen)
    /\ onopen(Connection).status = "connected"
    /\ onerror(Connection).status = "error"
    /\ onclose(Connection).status # "connected"

\* a socket superseded while it was connecting has opened: the status is
\* 'connected' and the socket held is still connecting
C37_Witness ==
    /\ connectionStatus = "connected"
    /\ webSocket # Undefined
    /\ sockets[webSocket] = "connecting"
    /\ \E s \in C37_Superseded : sockets[s] = "open"


(***************************************************************************)
(* C38  TabletController: for each tablet button 1..8 the emitted          *)
(* 'tablet-button' events strictly alternate pressed = true and            *)
(* pressed = false, starting with pressed = true, whatever the order in    *)
(* which main-interface frames, secondary-interface reports (code or       *)
(* bit-flags mode) and keyboard events report that button's state; an      *)
(* event is emitted only when the tracked state changes.                   *)
(***************************************************************************)
\* the events of the button so far: true, false, true, ...
C38_Alternate(b) ==
    \A k \in 1..Len(buttonEvents[b]) : buttonEvents[b][k] = (k % 2 = 1)

\* the tracked state is what the last event said, released when there was
\* none: state and events change together
C38_Tracked(b) ==
    tabletButtonState[b] = (Len(buttonEvents[b]) % 2 = 1)

C38_ButtonsAlternate ==
    \A b \in 1..NumButtons : C38_Alternate(b) /\ C38_Tracked(b)

\* with buttons as codes: a button pressed, released by a frame of the
\* main interface and pressed again, while another has been pressed too
C38_Witness ==
    /\ ButtonConfig.type = "code"
    /\ \E b, c \in 1..NumButtons :
         /\ b # c
         /\ buttonEvents[b] = <<TRUE, FALSE, TRUE>>
         /\ Len(buttonEvents[c]) >= 1

=============================================================================
